---- MODULE Spec2Model ----
(***************************************************************************)
(* The disaggregated prefill/decode proxy of                               *)
(* tests/v1/kv_connector/nixl_integration/toy_proxy_server.py.             *)
(*                                                                         *)
(* Every inbound completion request is served by one coroutine             *)
(* (_handle_completions and the generate_stream generator it returns).     *)
(* The event loop runs the code between two awaits without interruption,   *)
(* so one action of the model is the code from one suspension point to the *)
(* next.  JSON objects are functions from key names to values, a missing   *)
(* key is a key outside the DOMAIN.  JSON scalars are written as TLA+      *)
(* values of one type per key.                                             *)
(***************************************************************************)
EXTENDS Integers, Sequences, FiniteSets, TLC

(***************************************************************************)
(* Bounds of the model.                                                    *)
(***************************************************************************)
NumReqs == 2
NumPrefill == 2
NumDecode == 2
MaxChunks == 2
MaxTime == 1
NumSelect == 3

\* The requests that arrive where handlers run to their end, and the
\* requests that arrive where only the selection of clients is followed.
Reqs == 1..NumReqs

Selectors == 1..NumSelect

AllReqs == Reqs \cup Selectors

(***************************************************************************)
(* Python dictionaries.                                                    *)
(***************************************************************************)
EmptyDict == <<>>

Has(d, k) == k \in DOMAIN d

Get(d, k, default) == IF k \in DOMAIN d THEN d[k] ELSE default

Put(d, k, v) == [x \in DOMAIN d \cup {k} |-> IF x = k THEN v ELSE d[x]]

Del(d, k) == [x \in DOMAIN d \ {k} |-> d[x]]

\* Python truth value of a dictionary or None: an empty dictionary and None
\* are false.
Truthy(d) == DOMAIN d # {} /\ ~ ("scalar" \in DOMAIN d)

\* Python None / JSON null where the other values of the key are strings.
None == "None"

\* first_token_ms = None: no clock reading has been stored yet.
NoTime == -1

\* prefill_client_info, decode_client_info before they are bound.
NoClient == -1

(***************************************************************************)
(* The state: the clock, the two pools and the two round-robin iterators   *)
(* the requests share, and for each request its coroutine and what its     *)
(* peers have seen of it.                                                  *)
(***************************************************************************)
VARIABLES
    now,               \* the wall clock in milliseconds, time.time() * 1000
    prefill_clients,   \* app.state.prefill_clients: the list built at startup
    decode_clients,    \* app.state.decode_clients: the list built at startup
    selected,          \* per role: the indices next() has returned, in order
    prefill_iterator,  \* app.state.prefill_iterator: the index it returns next
    decode_iterator,   \* app.state.decode_iterator: the index it returns next
    uuid_next,         \* the next value uuid.uuid4() hands out
    pc,                \* per request: where its coroutine is suspended
    local,             \* per request: the local variables of _handle_completions
    caller,            \* per request: what the caller sent and was given so far
    prefill_calls,     \* per request: the POSTs issued to the prefill backend
    prefill_resp,      \* per request: the response the prefill backend gave
    decode_calls,      \* per request: the streamed POSTs issued to the decode backend
    decode_resp,       \* per request: the status line the decode backend gave
    decode_chunks,     \* per request: the chunks received from the decode backend
    decode_stream,     \* per request: the streamed connection of client.stream()
    log,               \* per request: the records its handler logged
    argv,              \* per option of the command line: how many values it was given
    server,            \* where the process is between its start and its exit
    kv_transfer_group, \* the KV connector of the worker, if it has one
    runner,            \* the model runner the mixin is part of: self
    EMPTY_MODEL_RUNNER_OUTPUT, \* the output object every runner shares
    result,            \* what the last call of a method of the mixin returned
    steps              \* the calls of the mixin so far: how many, the last, the time they took

vars == <<now, prefill_clients, decode_clients, selected, prefill_iterator,
          decode_iterator, uuid_next, pc, local, caller, prefill_calls,
          prefill_resp, decode_calls, decode_resp, decode_chunks, decode_stream,
          log, argv, server, kv_transfer_group, runner,
          EMPTY_MODEL_RUNNER_OUTPUT, result, steps>>

\* The pools, which no request changes.
pools == <<prefill_clients, decode_clients>>

\* The state of the two selectors.
selectors == <<selected, prefill_iterator, decode_iterator>>

\* The command line and the progress of the process, which no request
\* changes.
lifecycle == <<argv, server>>

\* The state of the worker's model runner, a process of its own.
worker == <<kv_transfer_group, runner, EMPTY_MODEL_RUNNER_OUTPUT, result,
            steps>>

\* What no handler of the proxy touches.
offstage == <<lifecycle, worker>>

get_timestamp_ms == now

format_duration_ms(start_time_ms, end_time_ms) == end_time_ms - start_time_ms

(***************************************************************************)
(* Values the environment supplies.                                        *)
(***************************************************************************)

\* kv_transfer_params as a caller may supply it and as a prefill backend
\* returns it.
CallerKV == [remote_engine_id |-> "caller"]

BackendKV == [remote_engine_id |-> "abc"]

\* A caller's JSON body with every field the handlers look at.
FullPayload ==
    [model |-> "m", stream |-> TRUE, max_tokens |-> 50,
     max_completion_tokens |-> 50, stream_options |-> [include_usage |-> TRUE],
     kv_transfer_params |-> CallerKV]

OptionalFields ==
    {"stream", "max_tokens", "max_completion_tokens", "stream_options",
     "kv_transfer_params"}

\* Every body that has "model" and any subset of the other fields.
AllPayloads ==
    {[k \in {"model"} \cup S |-> FullPayload[k]] : S \in SUBSET OptionalFields}

\* Seconds as the backends report them, and what is not a number.
Numbers == {"0.01", "0.02", "0.05", "0.08"}

\* JSON null (None after response.json()) under a key whose other values
\* are objects: a value that is no dictionary.
JsonNull == [scalar |-> "null"]

IsObject(v) == ~ Has(v, "scalar")

PrefillTimings ==
    {[queued_time |-> "0.02", execute_time |-> "0.08"],
     [execute_time |-> "0.08"],
     [queued_time |-> "0.02"],
     EmptyDict,
     [queued_time |-> None, execute_time |-> "0.08"],
     [queued_time |-> "0.02", execute_time |-> None],
     JsonNull}

\* The JSON bodies of a 2xx prefill response: kv_transfer_params and
\* vllm_timing each absent or present.
PrefillBodies ==
    {[id |-> "cmpl-1"]}
    \cup {[id |-> "cmpl-1", kv_transfer_params |-> kv] :
            kv \in {EmptyDict, BackendKV, JsonNull}}
    \cup {[id |-> "cmpl-1", vllm_timing |-> t] : t \in PrefillTimings}
    \cup {[id |-> "cmpl-1", kv_transfer_params |-> kv, vllm_timing |-> t] :
            kv \in {EmptyDict, BackendKV, JsonNull}, t \in PrefillTimings}

\* A backend's answer to a call: status 0 stands for a connection failure
\* (no answer at all), text is the body of an error answer.
Response(status, json, text) == [status |-> status, json |-> json, text |-> text]

NoResponse == Response(-1, EmptyDict, "")

ConnectFailure == Response(0, EmptyDict, "")

ErrorResponses ==
    {Response(503, EmptyDict, "backend overloaded"),
     Response(400, EmptyDict, "bad request"),
     ConnectFailure}

AllPrefillResponses ==
    {Response(200, b, "") : b \in PrefillBodies} \cup ErrorResponses

\* Mutant of IsSuccess: raise_for_status() is never called, any answer
\* passes.
IsSuccess_unchecked(resp) == TRUE

\* response.raise_for_status() returns normally.
IsSuccess(resp) == resp.status \in 200..299

(***************************************************************************)
(* Chunks of the decode stream.  A chunk is a byte string; the model keeps *)
(* what the proxy can tell of it: whether it decodes as UTF-8, whether it  *)
(* starts with "data: ", what follows the prefix (one JSON object, a JSON  *)
(* value that is no object, text that is not JSON, several events, the     *)
(* [DONE] marker, nothing), how the JSON text is laid out, and the object. *)
(***************************************************************************)
Chunk(utf8, prefix, body, fmt, data) ==
    [utf8 |-> utf8, prefix |-> prefix, body |-> body, fmt |-> fmt, data |-> data]

Event(fmt, data) == Chunk(TRUE, TRUE, "object", fmt, data)

DecodeTimings ==
    {[queued_time |-> "0.01", execute_time |-> "0.05"],
     [queued_time |-> "0.01"],
     JsonNull}

EventData ==
    {[id |-> "cmpl-1", text |-> "tok"]}
    \cup {[id |-> "cmpl-1", text |-> "tok", vllm_timing |-> t] : t \in DecodeTimings}

AllChunks ==
    {Event(f, d) : f \in {"backend", "dumps"}, d \in EventData}
    \cup {Chunk(TRUE, TRUE, b, "backend", EmptyDict) :
            b \in {"scalar", "invalid", "several", "done", "empty"}}
    \cup {Chunk(TRUE, FALSE, "invalid", "backend", EmptyDict),
          Chunk(FALSE, FALSE, "invalid", "backend", EmptyDict)}

(***************************************************************************)
(* get_next_client: next() on itertools.cycle(range(n)) returns the cursor *)
(* and moves it one step round the pool.                                   *)
(***************************************************************************)

\* Mutant of get_next_client: the cursor runs on past the end of the pool.
get_next_client_no_wrap(cursor, n) == [idx |-> cursor, cursor |-> cursor + 1]

\* Mutant of get_next_client: the cursor is read and not moved, as when a
\* second reader comes between the read and the write of the first.
get_next_client_stale(cursor, n) == [idx |-> cursor, cursor |-> cursor]

get_next_client(cursor, n) == [idx |-> cursor, cursor |-> (cursor + 1) % n]

(***************************************************************************)
(* send_request_to_service: the body of the prefill call.                  *)
(***************************************************************************)
FixedKV ==
    [do_remote_decode |-> TRUE, do_remote_prefill |-> FALSE,
     remote_engine_id |-> None, remote_block_ids |-> None,
     remote_host |-> None, remote_port |-> None]

\* Mutant of prefill_overrides: stream_options is left in the body.
prefill_overrides_keeps_options(req_data) ==
    LET d1 == Put(req_data, "kv_transfer_params", FixedKV)
        d2 == Put(d1, "stream", FALSE)
        d3 == Put(d2, "max_tokens", 1)
    IN  IF Has(d3, "max_completion_tokens")
        THEN Put(d3, "max_completion_tokens", 1) ELSE d3

\* What the function does to the dictionary it works on.
prefill_overrides(req_data) ==
    LET d1 == Put(req_data, "kv_transfer_params", FixedKV)
        d2 == Put(d1, "stream", FALSE)
        d3 == Put(d2, "max_tokens", 1)
        d4 == IF Has(d3, "max_completion_tokens")
              THEN Put(d3, "max_completion_tokens", 1) ELSE d3
        d5 == IF Has(d4, "stream_options") THEN Del(d4, "stream_options") ELSE d4
    IN  d5

\* Mutant of send_request_to_service: the overrides are written into the
\* caller's dictionary, not into a copy.
send_request_to_service_in_place(req_data) ==
    [json |-> prefill_overrides(req_data), caller |-> prefill_overrides(req_data)]

\* The function works on req_data.copy(): json is what it posts, caller is
\* the dictionary of _handle_completions after the call.
send_request_to_service(req_data) ==
    [json |-> prefill_overrides(req_data), caller |-> req_data]

(***************************************************************************)
(* _handle_completions, after the prefill response: the fields it extracts.*)
(***************************************************************************)

\* Mutant of merge_kv_transfer_params: the returned value is stored without
\* the test of line 240.
merge_kv_transfer_params_always(req_data, response_json) ==
    Put(req_data, "kv_transfer_params",
        Get(response_json, "kv_transfer_params", EmptyDict))

\* req_data after lines 239-241.
merge_kv_transfer_params(req_data, response_json) ==
    LET kv_transfer_params == Get(response_json, "kv_transfer_params", EmptyDict)
    IN  IF Truthy(kv_transfer_params)
        THEN Put(req_data, "kv_transfer_params", kv_transfer_params)
        ELSE req_data

\* timing.get(key): None for a missing key.
extract_prefill_timing(response_json) ==
    IF Has(response_json, "vllm_timing")
    THEN LET timing == response_json["vllm_timing"]
         IN  [prefill_queued_time |-> Get(timing, "queued_time", None),
              prefill_execute_time |-> Get(timing, "execute_time", None)]
    ELSE EmptyDict

\* Lines 247-252 raise: timing.get on a value that is no dictionary
\* (AttributeError), or timing.get(key, 0) * 1000 formatted with .1f on a
\* value that is no number (TypeError for None).
prefill_timing_raises(response_json) ==
    /\ Has(response_json, "vllm_timing")
    /\ LET timing == response_json["vllm_timing"]
       IN  \/ ~ IsObject(timing)
           \/ (Has(timing, "queued_time") /\ timing["queued_time"] \notin Numbers)
           \/ (Has(timing, "execute_time") /\ timing["execute_time"] \notin Numbers)

(***************************************************************************)
(* generate_stream, lines 284-311: the first-chunk rewrite.                *)
(***************************************************************************)

\* The assert of lines 293-296 passes.
carries_timing(data) ==
    /\ Has(data, "vllm_timing")
    /\ IsObject(data["vllm_timing"])
    /\ Has(data["vllm_timing"], "queued_time")
    /\ Has(data["vllm_timing"], "execute_time")

\* Something in the try block raises: chunk.decode, json.loads, the assert
\* or a subscript of a value that is no dictionary.
inject_raises(chunk) ==
    \/ ~ chunk.utf8
    \/ /\ chunk.prefix
       /\ \/ chunk.body \in {"invalid", "several", "scalar"}
          \/ chunk.body = "object" /\ ~ carries_timing(chunk.data)

\* The chunk is re-encoded as "data: " + json.dumps(data) + two newlines.
inject_rewrites(chunk) ==
    chunk.utf8 /\ chunk.prefix /\ chunk.body = "object" /\ carries_timing(chunk.data)

\* Mutant of rewrite_timing: the decode fields are filled from the prefill
\* timing.
rewrite_timing_swapped(data, prefill_timing) ==
    Put(data, "vllm_timing",
        [prefill_queued_time |-> prefill_timing["prefill_queued_time"],
         prefill_execute_time |-> prefill_timing["prefill_execute_time"],
         decode_queued_time |-> prefill_timing["prefill_queued_time"],
         decode_execute_time |-> prefill_timing["prefill_execute_time"]])

\* The dictionary of the event after lines 297-306.
rewrite_timing(data, prefill_timing) ==
    Put(data, "vllm_timing",
        [prefill_queued_time |-> prefill_timing["prefill_queued_time"],
         prefill_execute_time |-> prefill_timing["prefill_execute_time"],
         decode_queued_time |-> data["vllm_timing"]["queued_time"],
         decode_execute_time |-> data["vllm_timing"]["execute_time"]])

\* Mutant of inject_timing: the except clause swallows the exception
\* without logging it.
inject_timing_silent(chunk, prefill_timing) ==
    IF inject_rewrites(chunk)
    THEN [chunk |-> Event("dumps", rewrite_timing(chunk.data, prefill_timing)),
          warned |-> FALSE]
    ELSE [chunk |-> chunk, warned |-> FALSE]

\* chunk is what is yielded, warned whether logger.warning was called.
inject_timing(chunk, prefill_timing) ==
    IF inject_rewrites(chunk)
    THEN [chunk |-> Event("dumps", rewrite_timing(chunk.data, prefill_timing)),
          warned |-> FALSE]
    ELSE [chunk |-> chunk, warned |-> inject_raises(chunk)]

\* The guard of line 283.
is_first_chunk(first_token_ms, current_time_ms) == first_token_ms = current_time_ms

(***************************************************************************)
(* vllm/v1/outputs.py is not part of the sources at hand: of a             *)
(* ModelRunnerOutput the model keeps the two fields the mixin assigns.  An *)
(* Optional[set] is <<>> for None and <<ids>> for a set.                   *)
(***************************************************************************)
NoSet == <<>>

SomeSet(ids) == <<ids>>

EmptyOutput == [finished_sending |-> NoSet, finished_recving |-> NoSet]

(***************************************************************************)
(* The state after startup (lifespan has built the pools and the           *)
(* iterators) and before any request.                                      *)
(***************************************************************************)
LogLine(tag, request_id, fields) ==
    [tag |-> tag, request_id |-> request_id, fields |-> fields]

InitLocal ==
    [req_data |-> EmptyDict, request_id |-> 0,
     proxy_start_ms |-> NoTime, prefill_start_ms |-> NoTime,
     prefill_end_ms |-> NoTime, decode_start_ms |-> NoTime,
     first_token_ms |-> NoTime, prefill_timing |-> EmptyDict,
     prefill_client |-> NoClient, decode_client |-> NoClient]

InitCaller ==
    [payload |-> EmptyDict, status |-> 0, error_body |-> "",
     chunks |-> <<>>, stream |-> "none"]

\* Lines 36-65: one client_info for every instance, holding its id and an
\* httpx.AsyncClient, which is open when it is built.
client_infos(instances) ==
    [i \in 1..instances |-> [id |-> i - 1, is_closed |-> FALSE]]

\* lifespan, lines 36-71, for prefiller_instances and decoder_instances of
\* the given lengths: a client_info with its id for every instance, and an
\* iterator at the start of each pool.
lifespan(prefiller_instances, decoder_instances) ==
    /\ prefill_clients = client_infos(prefiller_instances)
    /\ decode_clients = client_infos(decoder_instances)
    /\ prefill_iterator = 0
    /\ decode_iterator = 0
    /\ selected = [prefill |-> <<>>, decode |-> <<>>]
    /\ argv = [prefiller_hosts |-> prefiller_instances,
               prefiller_ports |-> prefiller_instances,
               decoder_hosts |-> decoder_instances,
               decoder_ports |-> decoder_instances]
    /\ server = "serving"

NoRequests ==
    /\ now = 0
    /\ uuid_next = 1
    /\ pc = [r \in AllReqs |-> "idle"]
    /\ local = [r \in AllReqs |-> InitLocal]
    /\ caller = [r \in AllReqs |-> InitCaller]
    /\ prefill_calls = [r \in AllReqs |-> <<>>]
    /\ prefill_resp = [r \in AllReqs |-> NoResponse]
    /\ decode_calls = [r \in AllReqs |-> <<>>]
    /\ decode_resp = [r \in AllReqs |-> NoResponse]
    /\ decode_chunks = [r \in AllReqs |-> <<>>]
    /\ decode_stream = [r \in AllReqs |-> "none"]
    /\ log = [r \in AllReqs |-> <<>>]

\* The request ids the scheduler of the worker knows.
KVReqIds == {"req-a", "req-b"}

\* No method of the mixin has been called yet: no request was scheduled
\* in a step that transferred anything.
NoSteps ==
    [count |-> 0, last |-> [transfer |-> "none"],
     total |-> [req_id \in KVReqIds |-> [kv_load_time |-> 0, kv_save_time |-> 0]]]

\* The worker's model runner before its first step, without a KV connector
\* and with no request to track.
NoWorker ==
    /\ kv_transfer_group = [present |-> FALSE, metadata |-> 0, calls |-> <<>>]
    /\ runner = [requests |-> EmptyDict]
    /\ EMPTY_MODEL_RUNNER_OUTPUT = EmptyOutput
    /\ result = [call |-> "none"]
    /\ steps = NoSteps

Init == lifespan(NumPrefill, NumDecode) /\ NoRequests /\ NoWorker

\* Startup with any number of instances of each role, from one up.
InitSelect ==
    /\ \E p \in 1..NumPrefill, d \in 1..NumDecode : lifespan(p, d)
    /\ NoRequests
    /\ NoWorker

(***************************************************************************)
(* get_next_client, lines 150-155: next() on the iterator of the role.     *)
(* next_client is the index returned and the cursor after it;              *)
(* advance_iterator is what the call leaves behind in the state.           *)
(***************************************************************************)
next_client(service_type) ==
    IF service_type = "prefill"
    THEN get_next_client(prefill_iterator, Len(prefill_clients))
    ELSE get_next_client(decode_iterator, Len(decode_clients))

\* Mutant of advance_iterator: the two roles share one cursor.
advance_iterator_shared(service_type, picked) ==
    /\ prefill_iterator' = picked.cursor
    /\ decode_iterator' = picked.cursor
    /\ selected' = [selected EXCEPT ![service_type] = Append(@, picked.idx)]

advance_iterator(service_type, picked) ==
    /\ IF service_type = "prefill"
       THEN prefill_iterator' = picked.cursor /\ UNCHANGED decode_iterator
       ELSE decode_iterator' = picked.cursor /\ UNCHANGED prefill_iterator
    /\ selected' = [selected EXCEPT ![service_type] = Append(@, picked.idx)]

(***************************************************************************)
(* An exception leaves _handle_completions (lines 326-332): two error      *)
(* records are logged and the exception is raised again; the framework     *)
(* answers an exception of a handler with 500 Internal Server Error.       *)
(***************************************************************************)
error_log == <<LogLine("ERROR", 0, EmptyDict), LogLine("ERROR_TRACEBACK", 0, EmptyDict)>>

handler_raises(c) ==
    [c EXCEPT !.status = 500, !.error_body = "Internal Server Error"]

(***************************************************************************)
(* _handle_completions, lines 214-229: from the arrival of the request to  *)
(* the await of the prefill call.  The requests are numbered in the order  *)
(* in which they arrive.  A body that is no JSON object makes              *)
(* send_request_to_service raise at line 165 or 166, after the prefill     *)
(* client has been taken and before anything is posted.                    *)
(***************************************************************************)
dispatch(r, payload) ==
    /\ pc[r] = "idle"
    /\ \A q \in 1..(r - 1) : pc[q] # "idle"
    /\ LET request_id == uuid_next
           proxy_start_ms == get_timestamp_ms
           picked == next_client("prefill")
           prefill_start_ms == get_timestamp_ms
           start_line == LogLine("PROXY_START", request_id,
                                 [proxy_start_ms |-> proxy_start_ms])
       IN  /\ uuid_next' = uuid_next + 1
           /\ advance_iterator("prefill", picked)
           /\ IF IsObject(payload)
              THEN LET sent == send_request_to_service(payload)
                   IN  /\ local' = [local EXCEPT ![r] =
                              [@ EXCEPT !.req_data = sent.caller,
                                        !.request_id = request_id,
                                        !.proxy_start_ms = proxy_start_ms,
                                        !.prefill_start_ms = prefill_start_ms,
                                        !.prefill_client = picked.idx]]
                       /\ caller' = [caller EXCEPT ![r].payload = payload]
                       /\ prefill_calls' = [prefill_calls EXCEPT ![r] =
                              Append(@, [client |-> picked.idx, json |-> sent.json,
                                         request_id |-> request_id])]
                       /\ log' = [log EXCEPT ![r] = Append(@, start_line)]
                       /\ pc' = [pc EXCEPT ![r] = "prefill_wait"]
              ELSE /\ local' = [local EXCEPT ![r] =
                          [@ EXCEPT !.req_data = payload,
                                    !.request_id = request_id,
                                    !.proxy_start_ms = proxy_start_ms,
                                    !.prefill_start_ms = prefill_start_ms,
                                    !.prefill_client = picked.idx]]
                   /\ caller' = [caller EXCEPT ![r] =
                          handler_raises([@ EXCEPT !.payload = payload])]
                   /\ UNCHANGED prefill_calls
                   /\ log' = [log EXCEPT ![r] = (@ \o <<start_line>>) \o error_log]
                   /\ pc' = [pc EXCEPT ![r] = "errored"]
    /\ UNCHANGED <<now, pools, offstage, prefill_resp, decode_calls, decode_resp,
                   decode_chunks, decode_stream>>

(***************************************************************************)
(* _handle_completions, lines 185-190 and 231-332: the prefill call        *)
(* returns.  A failure (no answer, or raise_for_status on a non-2xx        *)
(* answer) and a failure of lines 247-252 end in the except clause; else   *)
(* the handler returns the StreamingResponse, whose status 200 the         *)
(* framework sends before it starts the generator.                         *)
(***************************************************************************)
\* Mutant of prefill_returns: the decode client is taken before the status
\* of the prefill response is looked at.
prefill_returns_decode_taken_early(r, resp) ==
    /\ pc[r] = "prefill_wait"
    /\ prefill_resp' = [prefill_resp EXCEPT ![r] = resp]
    /\ IF ~ IsSuccess(resp)
       THEN /\ pc' = [pc EXCEPT ![r] = "errored"]
            /\ caller' = [caller EXCEPT ![r] = handler_raises(@)]
            /\ log' = [log EXCEPT ![r] = @ \o error_log]
            /\ advance_iterator("decode", next_client("decode"))
            /\ UNCHANGED local
       ELSE LET request_id == local[r].request_id
                prefill_end_ms == get_timestamp_ms
                prefill_duration_ms ==
                    format_duration_ms(local[r].prefill_start_ms, prefill_end_ms)
                end_line == LogLine("PREFILL_REQUEST_END", request_id,
                                [prefill_end_ms |-> prefill_end_ms,
                                 prefill_duration_ms |-> prefill_duration_ms])
                req_data == merge_kv_transfer_params(local[r].req_data, resp.json)
            IN  IF prefill_timing_raises(resp.json)
                THEN /\ pc' = [pc EXCEPT ![r] = "errored"]
                     /\ caller' = [caller EXCEPT ![r] = handler_raises(@)]
                     /\ log' = [log EXCEPT ![r] = (@ \o <<end_line>>) \o error_log]
                     /\ local' = [local EXCEPT ![r] =
                            [@ EXCEPT !.req_data = req_data,
                                      !.prefill_end_ms = prefill_end_ms]]
                     /\ UNCHANGED selectors
                ELSE LET prefill_timing == extract_prefill_timing(resp.json)
                         timing_lines ==
                             IF Has(resp.json, "vllm_timing")
                             THEN <<LogLine("PREFILL_TIMING", request_id, EmptyDict)>>
                             ELSE <<>>
                         picked == next_client("decode")
                         decode_start_ms == get_timestamp_ms
                         gap == format_duration_ms(prefill_end_ms, decode_start_ms)
                         start_line ==
                             LogLine("DECODE_REQUEST_START", request_id,
                                 [decode_start_ms |-> decode_start_ms,
                                  prefill_to_decode_gap_ms |-> gap])
                     IN  /\ pc' = [pc EXCEPT ![r] = "responding"]
                         /\ advance_iterator("decode", picked)
                         /\ local' = [local EXCEPT ![r] =
                                [@ EXCEPT !.req_data = req_data,
                                          !.prefill_end_ms = prefill_end_ms,
                                          !.prefill_timing = prefill_timing,
                                          !.decode_client = picked.idx,
                                          !.decode_start_ms = decode_start_ms]]
                         /\ caller' = [caller EXCEPT ![r].status = 200,
                                                     ![r].stream = "open"]
                         /\ log' = [log EXCEPT ![r] =
                                ((@ \o <<end_line>>) \o timing_lines) \o <<start_line>>]
    /\ UNCHANGED <<now, pools, offstage, uuid_next, prefill_calls, decode_calls,
                   decode_resp, decode_chunks, decode_stream>>

prefill_returns(r, resp) ==
    /\ pc[r] = "prefill_wait"
    /\ prefill_resp' = [prefill_resp EXCEPT ![r] = resp]
    /\ IF ~ IsSuccess(resp)
       THEN /\ pc' = [pc EXCEPT ![r] = "errored"]
            /\ caller' = [caller EXCEPT ![r] = handler_raises(@)]
            /\ log' = [log EXCEPT ![r] = @ \o error_log]
            /\ UNCHANGED <<local, selectors>>
       ELSE LET request_id == local[r].request_id
                prefill_end_ms == get_timestamp_ms
                prefill_duration_ms ==
                    format_duration_ms(local[r].prefill_start_ms, prefill_end_ms)
                end_line == LogLine("PREFILL_REQUEST_END", request_id,
                                [prefill_end_ms |-> prefill_end_ms,
                                 prefill_duration_ms |-> prefill_duration_ms])
                req_data == merge_kv_transfer_params(local[r].req_data, resp.json)
            IN  IF prefill_timing_raises(resp.json)
                THEN /\ pc' = [pc EXCEPT ![r] = "errored"]
                     /\ caller' = [caller EXCEPT ![r] = handler_raises(@)]
                     /\ log' = [log EXCEPT ![r] = (@ \o <<end_line>>) \o error_log]
                     /\ local' = [local EXCEPT ![r] =
                            [@ EXCEPT !.req_data = req_data,
                                      !.prefill_end_ms = prefill_end_ms]]
                     /\ UNCHANGED selectors
                ELSE LET prefill_timing == extract_prefill_timing(resp.json)
                         timing_lines ==
                             IF Has(resp.json, "vllm_timing")
                             THEN <<LogLine("PREFILL_TIMING", request_id, EmptyDict)>>
                             ELSE <<>>
                         picked == next_client("decode")
                         decode_start_ms == get_timestamp_ms
                         gap == format_duration_ms(prefill_end_ms, decode_start_ms)
                         start_line ==
                             LogLine("DECODE_REQUEST_START", request_id,
                                 [decode_start_ms |-> decode_start_ms,
                                  prefill_to_decode_gap_ms |-> gap])
                     IN  /\ pc' = [pc EXCEPT ![r] = "responding"]
                         /\ advance_iterator("decode", picked)
                         /\ local' = [local EXCEPT ![r] =
                                [@ EXCEPT !.req_data = req_data,
                                          !.prefill_end_ms = prefill_end_ms,
                                          !.prefill_timing = prefill_timing,
                                          !.decode_client = picked.idx,
                                          !.decode_start_ms = decode_start_ms]]
                         /\ caller' = [caller EXCEPT ![r].status = 200,
                                                     ![r].stream = "open"]
                         /\ log' = [log EXCEPT ![r] =
                                ((@ \o <<end_line>>) \o timing_lines) \o <<start_line>>]
    /\ UNCHANGED <<now, pools, offstage, uuid_next, prefill_calls, decode_calls,
                   decode_resp, decode_chunks, decode_stream>>

(***************************************************************************)
(* generate_stream, lines 265-271 with stream_service_response, lines      *)
(* 198-206: the framework starts the generator, which opens the streamed   *)
(* POST to the decode client with req_data as it is now.  From here to the *)
(* end of the async with block the connection of the call is held.         *)
(***************************************************************************)

\* Mutant of enclosing_req_data: req_data is one variable of the module,
\* which holds the dictionary of the request that arrived last.
enclosing_req_data_global(r) == local[uuid_next - 1].req_data

\* req_data of line 270: the variable of the call of _handle_completions
\* that defined this generate_stream.
enclosing_req_data(r) == local[r].req_data

\* Mutant of stream_service_response: the decode call waits for a lock
\* that every handler holds while its prefill call is outstanding.
stream_service_response_exclusive(r) ==
    /\ pc[r] = "responding"
    /\ \A q \in AllReqs \ {r} : pc[q] # "prefill_wait"
    /\ decode_calls' = [decode_calls EXCEPT ![r] =
           Append(@, [client |-> local[r].decode_client,
                      json |-> enclosing_req_data(r),
                      request_id |-> local[r].request_id])]
    /\ decode_stream' = [decode_stream EXCEPT ![r] = "open"]
    /\ pc' = [pc EXCEPT ![r] = "decode_wait"]
    /\ UNCHANGED <<now, pools, offstage, selectors, uuid_next, local, caller, prefill_calls,
                   prefill_resp, decode_resp, decode_chunks, log>>

stream_service_response(r) ==
    /\ pc[r] = "responding"
    /\ decode_calls' = [decode_calls EXCEPT ![r] =
           Append(@, [client |-> local[r].decode_client,
                      json |-> enclosing_req_data(r),
                      request_id |-> local[r].request_id])]
    /\ decode_stream' = [decode_stream EXCEPT ![r] = "open"]
    /\ pc' = [pc EXCEPT ![r] = "decode_wait"]
    /\ UNCHANGED <<now, pools, offstage, selectors, uuid_next, local, caller, prefill_calls,
                   prefill_resp, decode_resp, decode_chunks, log>>

(***************************************************************************)
(* stream_service_response, lines 203-207: the decode backend answers the  *)
(* streamed call (or the connection fails).  raise_for_status raises       *)
(* inside the generator, after _handle_completions has returned: its       *)
(* except clause is not on the stack, and the response the caller is       *)
(* reading, begun with status 200, is cut off.  The exception leaves the   *)
(* async with block, which gives the connection back.                      *)
(***************************************************************************)

\* Mutant of decode_responds: after a failed decode call the generator is
\* started again and repeats the call.
decode_responds_retries(r, resp) ==
    /\ pc[r] = "decode_wait"
    /\ decode_resp' = [decode_resp EXCEPT ![r] = resp]
    /\ IF IsSuccess(resp)
       THEN /\ pc' = [pc EXCEPT ![r] = "streaming"]
            /\ UNCHANGED <<caller, decode_stream>>
       ELSE /\ pc' = [pc EXCEPT ![r] = "responding"]
            /\ decode_stream' = [decode_stream EXCEPT ![r] = "closed"]
            /\ UNCHANGED caller
    /\ UNCHANGED <<now, pools, offstage, selectors, uuid_next, local, prefill_calls,
                   prefill_resp, decode_calls, decode_chunks, log>>

decode_responds(r, resp) ==
    /\ pc[r] = "decode_wait"
    /\ decode_resp' = [decode_resp EXCEPT ![r] = resp]
    /\ IF IsSuccess(resp)
       THEN /\ pc' = [pc EXCEPT ![r] = "streaming"]
            /\ UNCHANGED <<caller, decode_stream>>
       ELSE /\ pc' = [pc EXCEPT ![r] = "errored"]
            /\ caller' = [caller EXCEPT ![r].stream = "aborted"]
            /\ decode_stream' = [decode_stream EXCEPT ![r] = "closed"]
    /\ UNCHANGED <<now, pools, offstage, selectors, uuid_next, local, prefill_calls,
                   prefill_resp, decode_calls, decode_chunks, log>>

(***************************************************************************)
(* generate_stream, lines 268-313: one chunk arrives and is yielded.       *)
(***************************************************************************)
\* Mutant of receive_chunk: every chunk is taken for the first one.
receive_chunk_every_chunk_first(r, chunk) ==
    /\ pc[r] = "streaming"
    /\ Len(decode_chunks[r]) < MaxChunks
    /\ LET current_time_ms == get_timestamp_ms
           is_first == TRUE
           first_token_ms == IF is_first THEN current_time_ms
                             ELSE local[r].first_token_ms
           first_lines ==
               IF is_first
               THEN <<LogLine("FIRST_TOKEN", local[r].request_id,
                         [first_token_ms |-> first_token_ms,
                          decode_queue_time_ms |->
                              format_duration_ms(local[r].decode_start_ms,
                                                 first_token_ms)])>>
               ELSE <<>>
           injected ==
               IF is_first_chunk(first_token_ms, current_time_ms)
                  /\ Truthy(local[r].prefill_timing)
               THEN inject_timing(chunk, local[r].prefill_timing)
               ELSE [chunk |-> chunk, warned |-> FALSE]
           warning_lines ==
               IF injected.warned THEN <<LogLine("WARNING", 0, EmptyDict)>> ELSE <<>>
       IN  /\ local' = [local EXCEPT ![r].first_token_ms = first_token_ms]
           /\ decode_chunks' = [decode_chunks EXCEPT ![r] = Append(@, chunk)]
           /\ caller' = [caller EXCEPT ![r].chunks = Append(@, injected.chunk)]
           /\ log' = [log EXCEPT ![r] = (@ \o first_lines) \o warning_lines]
    /\ UNCHANGED <<now, pools, offstage, selectors, uuid_next, pc, prefill_calls,
                   prefill_resp, decode_calls, decode_resp, decode_stream>>

receive_chunk(r, chunk) ==
    /\ pc[r] = "streaming"
    /\ Len(decode_chunks[r]) < MaxChunks
    /\ LET current_time_ms == get_timestamp_ms
           is_first == local[r].first_token_ms = NoTime
           first_token_ms == IF is_first THEN current_time_ms
                             ELSE local[r].first_token_ms
           first_lines ==
               IF is_first
               THEN <<LogLine("FIRST_TOKEN", local[r].request_id,
                         [first_token_ms |-> first_token_ms,
                          decode_queue_time_ms |->
                              format_duration_ms(local[r].decode_start_ms,
                                                 first_token_ms)])>>
               ELSE <<>>
           injected ==
               IF is_first_chunk(first_token_ms, current_time_ms)
                  /\ Truthy(local[r].prefill_timing)
               THEN inject_timing(chunk, local[r].prefill_timing)
               ELSE [chunk |-> chunk, warned |-> FALSE]
           warning_lines ==
               IF injected.warned THEN <<LogLine("WARNING", 0, EmptyDict)>> ELSE <<>>
       IN  /\ local' = [local EXCEPT ![r].first_token_ms = first_token_ms]
           /\ decode_chunks' = [decode_chunks EXCEPT ![r] = Append(@, chunk)]
           /\ caller' = [caller EXCEPT ![r].chunks = Append(@, injected.chunk)]
           /\ log' = [log EXCEPT ![r] = (@ \o first_lines) \o warning_lines]
    /\ UNCHANGED <<now, pools, offstage, selectors, uuid_next, pc, prefill_calls,
                   prefill_resp, decode_calls, decode_resp, decode_stream>>

(***************************************************************************)
(* generate_stream, lines 315-321: the decode stream is exhausted, the     *)
(* async with block of stream_service_response is left, and the loop of    *)
(* generate_stream ends.                                                   *)
(***************************************************************************)

\* Mutant of stream_end: the duration is counted from decode_start_ms.
stream_end_since_decode_start(r) ==
    /\ pc[r] = "streaming"
    /\ LET completion_time_ms == get_timestamp_ms
           total_duration_ms ==
               format_duration_ms(local[r].decode_start_ms, completion_time_ms)
       IN  log' = [log EXCEPT ![r] =
               Append(@, LogLine("REQUEST_COMPLETE", local[r].request_id,
                          [completion_time_ms |-> completion_time_ms,
                           total_duration_ms |-> total_duration_ms]))]
    /\ pc' = [pc EXCEPT ![r] = "completed"]
    /\ caller' = [caller EXCEPT ![r].stream = "closed"]
    /\ decode_stream' = [decode_stream EXCEPT ![r] = "closed"]
    /\ UNCHANGED <<now, pools, offstage, selectors, uuid_next, local, prefill_calls,
                   prefill_resp, decode_calls, decode_resp, decode_chunks>>

stream_end(r) ==
    /\ pc[r] = "streaming"
    /\ LET completion_time_ms == get_timestamp_ms
           total_duration_ms ==
               format_duration_ms(local[r].proxy_start_ms, completion_time_ms)
       IN  log' = [log EXCEPT ![r] =
               Append(@, LogLine("REQUEST_COMPLETE", local[r].request_id,
                          [completion_time_ms |-> completion_time_ms,
                           total_duration_ms |-> total_duration_ms]))]
    /\ pc' = [pc EXCEPT ![r] = "completed"]
    /\ caller' = [caller EXCEPT ![r].stream = "closed"]
    /\ decode_stream' = [decode_stream EXCEPT ![r] = "closed"]
    /\ UNCHANGED <<now, pools, offstage, selectors, uuid_next, local, prefill_calls,
                   prefill_resp, decode_calls, decode_resp, decode_chunks>>

(***************************************************************************)
(* stream_service_response, line 208: the read of the next chunk raises    *)
(* (the decode backend drops the connection in mid-stream).  The exception *)
(* leaves the async with block and both generators: nothing is logged and  *)
(* the response to the caller is cut off.                                  *)
(***************************************************************************)

\* Mutant of stream_fails: a stream that has ended can fail all the same.
stream_fails_after_end(r) ==
    /\ pc[r] \in {"streaming", "completed"}
    /\ pc' = [pc EXCEPT ![r] = "errored"]
    /\ caller' = [caller EXCEPT ![r].stream = "aborted"]
    /\ decode_stream' = [decode_stream EXCEPT ![r] = "closed"]
    /\ UNCHANGED <<now, pools, offstage, selectors, uuid_next, local, prefill_calls,
                   prefill_resp, decode_calls, decode_resp, decode_chunks, log>>

stream_fails(r) ==
    /\ pc[r] = "streaming"
    /\ pc' = [pc EXCEPT ![r] = "errored"]
    /\ caller' = [caller EXCEPT ![r].stream = "aborted"]
    /\ decode_stream' = [decode_stream EXCEPT ![r] = "closed"]
    /\ UNCHANGED <<now, pools, offstage, selectors, uuid_next, local, prefill_calls,
                   prefill_resp, decode_calls, decode_resp, decode_chunks, log>>

(***************************************************************************)
(* The caller closes its connection while generate_stream is suspended     *)
(* (lines 268-271 and 313).  The framework stops iterating the generator   *)
(* of the StreamingResponse of line 323: no chunk is asked for or yielded  *)
(* any more, and the generators are left to be closed by the event loop.   *)
(***************************************************************************)
caller_disconnects(r) ==
    /\ pc[r] \in {"decode_wait", "streaming"}
    /\ pc' = [pc EXCEPT ![r] = "cancelled"]
    /\ caller' = [caller EXCEPT ![r].stream = "disconnected"]
    /\ UNCHANGED <<now, pools, offstage, selectors, uuid_next, local, prefill_calls,
                   prefill_resp, decode_calls, decode_resp, decode_chunks,
                   decode_stream, log>>

(***************************************************************************)
(* stream_service_response, lines 203-209: the event loop closes the       *)
(* interrupted generators; the exception thrown into                       *)
(* stream_service_response at its suspension point leaves the async with   *)
(* block, which gives the connection back.  The loop of generate_stream    *)
(* does not end normally, so lines 315-321 are not run.                    *)
(***************************************************************************)

\* Mutant of aclose_stream: the generator is dropped with the async with
\* block still open.
aclose_stream_leaks(r) ==
    /\ pc[r] = "cancelled"
    /\ pc' = [pc EXCEPT ![r] = "disconnected"]
    /\ UNCHANGED <<now, pools, offstage, selectors, uuid_next, local, caller, prefill_calls,
                   prefill_resp, decode_calls, decode_resp, decode_chunks,
                   decode_stream, log>>

aclose_stream(r) ==
    /\ pc[r] = "cancelled"
    /\ pc' = [pc EXCEPT ![r] = "disconnected"]
    /\ decode_stream' = [decode_stream EXCEPT ![r] = "closed"]
    /\ UNCHANGED <<now, pools, offstage, selectors, uuid_next, local, caller, prefill_calls,
                   prefill_resp, decode_calls, decode_resp, decode_chunks, log>>

(***************************************************************************)
(* The clock moves on by a millisecond.                                    *)
(***************************************************************************)
Tick ==
    /\ now < MaxTime
    /\ now' = now + 1
    /\ UNCHANGED <<pools, offstage, selectors, uuid_next, pc, local, caller, prefill_calls,
                   prefill_resp, decode_calls, decode_resp, decode_chunks,
                   decode_stream, log>>

(***************************************************************************)
(* Specifications.  Spec interleaves NumReqs requests in every order, on a *)
(* few representative inputs and within one reading of the clock.          *)
(* SpecPayload and SpecStream run one request while the clock moves, the   *)
(* first over every caller payload and every prefill response, the second  *)
(* over every prefill timing and every decode chunk.  SpecSelect follows   *)
(* NumSelect requests up to their decode call, over pools of every size.   *)
(* SpecLifecycle runs one request through every end it can come to while   *)
(* the clock moves.  SpecHang runs NumReqs requests whose backends answer  *)
(* and whose callers stay, except that nothing makes the first request     *)
(* move on.                                                                *)
(***************************************************************************)
Payloads ==
    {[model |-> "m", stream |-> TRUE, max_tokens |-> 50],
     FullPayload}

\* A body that is valid JSON and no object: a list.
NotAnObject == [scalar |-> "list"]

Bodies == Payloads \cup {NotAnObject}

PrefillResponses ==
    {Response(200, [id |-> "cmpl-1", kv_transfer_params |-> BackendKV,
                    vllm_timing |-> [queued_time |-> "0.02",
                                     execute_time |-> "0.08"]], ""),
     Response(200, [id |-> "cmpl-2"], ""),
     Response(503, EmptyDict, "backend overloaded")}

DecodeResponses ==
    {Response(200, EmptyDict, ""), Response(503, EmptyDict, "backend overloaded")}

AllDecodeResponses ==
    {Response(200, EmptyDict, "")} \cup ErrorResponses

Chunks ==
    {Event("backend", [id |-> "cmpl-1", text |-> "tok",
                       vllm_timing |-> [queued_time |-> "0.01",
                                        execute_time |-> "0.05"]])}

Next ==
    \/ \E r \in Reqs, payload \in Payloads : dispatch(r, payload)
    \/ \E r \in Reqs, resp \in PrefillResponses : prefill_returns(r, resp)
    \/ \E r \in Reqs : stream_service_response(r)
    \/ \E r \in Reqs, resp \in DecodeResponses : decode_responds(r, resp)
    \/ \E r \in Reqs, chunk \in Chunks : receive_chunk(r, chunk)
    \/ \E r \in Reqs : stream_end(r)

Spec == Init /\ [][Next]_vars

NextPayload ==
    \/ \E payload \in AllPayloads : dispatch(1, payload)
    \/ \E resp \in AllPrefillResponses : prefill_returns(1, resp)
    \/ stream_service_response(1)
    \/ \E resp \in DecodeResponses : decode_responds(1, resp)
    \/ \E chunk \in Chunks : receive_chunk(1, chunk)
    \/ stream_end(1)
    \/ Tick

SpecPayload == Init /\ [][NextPayload]_vars

StreamPrefillResponses ==
    {Response(200, b, "") :
        b \in {[id |-> "cmpl-1"]}
              \cup {[id |-> "cmpl-1", vllm_timing |-> t] : t \in PrefillTimings}}

NextStream ==
    \/ \E payload \in Payloads : dispatch(1, payload)
    \/ \E resp \in StreamPrefillResponses : prefill_returns(1, resp)
    \/ stream_service_response(1)
    \/ \E resp \in AllDecodeResponses : decode_responds(1, resp)
    \/ \E chunk \in AllChunks : receive_chunk(1, chunk)
    \/ stream_end(1)
    \/ Tick

SpecStream == Init /\ [][NextStream]_vars

\* For the selection of clients a body is an object or not, and a
\* prefill call succeeds or not.
SelectBodies == {[model |-> "m"], NotAnObject}

SelectResponses ==
    {Response(200, [id |-> "cmpl-2"], ""),
     Response(503, EmptyDict, "backend overloaded")}

NextSelect ==
    \/ \E r \in Selectors, payload \in SelectBodies : dispatch(r, payload)
    \/ \E r \in Selectors, resp \in SelectResponses : prefill_returns(r, resp)
    \/ \E r \in Selectors : stream_service_response(r)

SpecSelect == InitSelect /\ [][NextSelect]_vars

\* The event loop runs every callback it has scheduled: the closing of an
\* interrupted generator is not put off for ever.
\* The prefill answers, one with a vllm_timing that is null among them.
LifecycleResponses ==
    PrefillResponses
    \cup {Response(200, [id |-> "cmpl-3", vllm_timing |-> JsonNull], "")}

NextLifecycle ==
    \/ \E payload \in Bodies : dispatch(1, payload)
    \/ \E resp \in LifecycleResponses : prefill_returns(1, resp)
    \/ stream_service_response(1)
    \/ \E resp \in DecodeResponses : decode_responds(1, resp)
    \/ \E chunk \in Chunks : receive_chunk(1, chunk)
    \/ stream_end(1)
    \/ stream_fails(1)
    \/ caller_disconnects(1)
    \/ aclose_stream(1)
    \/ Tick

SpecLifecycle == Init /\ [][NextLifecycle]_vars /\ WF_vars(aclose_stream(1))

\* The answers of backends that answer.
Answers == {resp \in SelectResponses : IsSuccess(resp)}

DecodeAnswers == {resp \in DecodeResponses : IsSuccess(resp)}

\* A step of the handler of request r, its backends' answers included.
Progress(r) ==
    \/ \E payload \in Payloads : dispatch(r, payload)
    \/ \E resp \in Answers : prefill_returns(r, resp)
    \/ stream_service_response(r)
    \/ \E resp \in DecodeAnswers : decode_responds(r, resp)
    \/ \E chunk \in Chunks : receive_chunk(r, chunk)
    \/ stream_end(r)

NextHang == \E r \in Reqs : Progress(r)

\* Every request but the first is scheduled fairly and has backends that
\* answer; the first may stay suspended for ever wherever it is.
SpecHang == Init /\ [][NextHang]_vars /\ \A r \in Reqs \ {1} : WF_vars(Progress(r))

(***************************************************************************)
(* Properties.                                                             *)
(***************************************************************************)

\* What the claims call the parts of a request.
DecodeIssued(r) == Len(decode_calls[r]) > 0

PrefillReturned(r) == prefill_resp[r] # NoResponse

\* The backend answered with an HTTP status that is not 2xx.
Rejected(resp) == resp.status > 0 /\ resp.status \notin 200..299

WarningCount(r) == Cardinality({i \in 1..Len(log[r]) : log[r][i].tag = "WARNING"})

\* C1: in every interleaving of the requests, a request's decode call is
\* issued only after its own prefill call has returned with a 2xx status:
\* a request whose prefill call is outstanding or has failed has no decode
\* call.
C1_DecodeAfterPrefill ==
    \A r \in Reqs :
        DecodeIssued(r) =>
            /\ Len(prefill_calls[r]) = 1
            /\ PrefillReturned(r)
            /\ prefill_resp[r].status \in 200..299
            /\ pc[r] \notin {"idle", "prefill_wait"}

\* C1, witness: one request's decode call is out while another request is
\* still waiting for its prefill response.
C1_Witness ==
    \E r, q \in Reqs :
        /\ r # q
        /\ pc[r] = "decode_wait" /\ DecodeIssued(r)
        /\ pc[q] = "prefill_wait"

\* C2 (as claimed): every chunk after the first is relayed to the caller
\* exactly as the decode backend sent it, whenever the chunks arrive.
C2_LaterChunksUnmodified ==
    \A r \in Reqs :
        \A i \in 2..Len(caller[r].chunks) :
            caller[r].chunks[i] = decode_chunks[r][i]

\* C3 (as claimed): after a non-2xx prefill response the request is in the
\* error state and the caller has the backend's own status and body.
C3_PrefillErrorPropagated ==
    \A r \in Reqs :
        (PrefillReturned(r) /\ Rejected(prefill_resp[r])) =>
            /\ pc[r] = "errored"
            /\ caller[r].status = prefill_resp[r].status
            /\ caller[r].error_body = prefill_resp[r].text

\* C4 (as claimed): after a non-2xx answer to the streamed decode call the
\* request is in the error state and the caller has the status and body of
\* the failing decode call, never a success status.
C4_DecodeErrorPropagated ==
    \A r \in Reqs :
        (decode_resp[r] # NoResponse /\ Rejected(decode_resp[r])) =>
            /\ pc[r] = "errored"
            /\ caller[r].status = decode_resp[r].status
            /\ caller[r].error_body = decode_resp[r].text

\* C5 (as claimed): after a 2xx prefill response, whatever its vllm_timing
\* is, the request has not failed: it has gone on to the decode phase and
\* the caller has been given the stream.
C5_TimingNeverFailsRequest ==
    \A r \in Reqs :
        (PrefillReturned(r) /\ prefill_resp[r].status \in 200..299) =>
            /\ pc[r] \in {"responding", "decode_wait", "streaming", "completed",
                          "errored"}
            /\ caller[r].status = 200
            /\ (pc[r] = "errored" => DecodeIssued(r))

\* The first chunk is one of the malformed chunks of C6: not UTF-8, not
\* JSON after the "data: " prefix, several events, or an event without
\* vllm_timing.queued_time / execute_time.
MalformedFirst(chunk) ==
    \/ ~ chunk.utf8
    \/ /\ chunk.utf8 /\ chunk.prefix
       /\ \/ chunk.body \in {"invalid", "several"}
          \/ /\ chunk.body = "object"
             /\ \/ ~ Has(chunk.data, "vllm_timing")
                \/ ~ Has(chunk.data["vllm_timing"], "queued_time")
                \/ ~ Has(chunk.data["vllm_timing"], "execute_time")

\* The first chunk is one well-formed "data: <json>" event that carries
\* vllm_timing.queued_time and vllm_timing.execute_time.
WellFormedFirst(chunk) ==
    /\ chunk.utf8 /\ chunk.prefix /\ chunk.body = "object"
    /\ Has(chunk.data, "vllm_timing")
    /\ Has(chunk.data["vllm_timing"], "queued_time")
    /\ Has(chunk.data["vllm_timing"], "execute_time")

\* The prefill response carried a vllm_timing that was stored as
\* prefill_timing.
TimingCaptured(r) ==
    /\ PrefillReturned(r)
    /\ Has(prefill_resp[r].json, "vllm_timing")
    /\ caller[r].status = 200

\* C6: when the rewrite of the first chunk fails (prefill timing was
\* captured and the first chunk is malformed), the stream is not aborted:
\* the first chunk reaches the caller as received, a warning is logged (one
\* once the first chunk is through), the response keeps its status and is
\* not cut off, and every chunk received after it is relayed too.
C6_MalformedFirstChunkForwarded ==
    \A r \in Reqs :
        (/\ TimingCaptured(r)
         /\ Len(decode_chunks[r]) >= 1
         /\ MalformedFirst(decode_chunks[r][1])) =>
            /\ Len(caller[r].chunks) = Len(decode_chunks[r])
            /\ caller[r].chunks[1] = decode_chunks[r][1]
            /\ WarningCount(r) >= 1
            /\ (Len(decode_chunks[r]) = 1 => WarningCount(r) = 1)
            /\ pc[r] \in {"streaming", "completed"}
            /\ caller[r].status = 200
            /\ caller[r].stream # "aborted"

\* C6, witness: a stream whose first chunk held several events has been
\* relayed to its end, with a second chunk after the malformed one.
C6_Witness ==
    \E r \in Reqs :
        /\ TimingCaptured(r)
        /\ Len(decode_chunks[r]) = 2
        /\ decode_chunks[r][1].body = "several"
        /\ WarningCount(r) >= 1
        /\ pc[r] = "completed"

\* C7: when prefill timing was captured and the first chunk is one
\* well-formed event with vllm_timing.queued_time and execute_time, the
\* first chunk the caller gets is that event with vllm_timing replaced by
\* exactly the four fields: the prefill response's queued_time and
\* execute_time (None for one the response lacks) and the chunk's own, and
\* with every other field as received.
C7_FirstChunkTimingRewritten ==
    \A r \in Reqs :
        (/\ TimingCaptured(r)
         /\ Len(decode_chunks[r]) >= 1
         /\ WellFormedFirst(decode_chunks[r][1])) =>
            LET got == decode_chunks[r][1]
                out == caller[r].chunks[1]
                pre == prefill_resp[r].json["vllm_timing"]
            IN  /\ out.utf8 /\ out.prefix /\ out.body = "object"
                /\ DOMAIN out.data = DOMAIN got.data
                /\ out.data["vllm_timing"] =
                       [prefill_queued_time |-> Get(pre, "queued_time", None),
                        prefill_execute_time |-> Get(pre, "execute_time", None),
                        decode_queued_time |-> got.data["vllm_timing"]["queued_time"],
                        decode_execute_time |-> got.data["vllm_timing"]["execute_time"]]
                /\ \A k \in DOMAIN got.data \ {"vllm_timing"} :
                       out.data[k] = got.data[k]

\* C7, witness: the round trip of the specification: prefill timing
\* 0.02 / 0.08, first chunk with 0.01 / 0.05, relayed rewritten.
C7_Witness ==
    \E r \in Reqs :
        /\ TimingCaptured(r)
        /\ prefill_resp[r].json["vllm_timing"] =
               [queued_time |-> "0.02", execute_time |-> "0.08"]
        /\ Len(caller[r].chunks) >= 1
        /\ WellFormedFirst(decode_chunks[r][1])
        /\ caller[r].chunks[1] # decode_chunks[r][1]
        /\ caller[r].chunks[1].data["vllm_timing"] =
               [prefill_queued_time |-> "0.02", prefill_execute_time |-> "0.08",
                decode_queued_time |-> "0.01", decode_execute_time |-> "0.05"]

\* C8: the body posted to the prefill backend is the caller's body except
\* that stream is false, max_tokens is 1 whether or not the caller gave it,
\* max_completion_tokens is 1 exactly when the caller gave that field,
\* stream_options is absent, and kv_transfer_params is the fixed mapping,
\* whatever the caller gave under that key.
C8_PrefillPayload ==
    \A r \in Reqs :
        Len(prefill_calls[r]) >= 1 =>
            LET sent == prefill_calls[r][1].json
                orig == caller[r].payload
            IN  /\ DOMAIN sent =
                       (DOMAIN orig \ {"stream_options"})
                       \cup {"stream", "max_tokens", "kv_transfer_params"}
                /\ sent["stream"] = FALSE
                /\ sent["max_tokens"] = 1
                /\ Has(sent, "max_completion_tokens") <=>
                       Has(orig, "max_completion_tokens")
                /\ Has(sent, "max_completion_tokens") =>
                       sent["max_completion_tokens"] = 1
                /\ ~ Has(sent, "stream_options")
                /\ sent["kv_transfer_params"] =
                       [do_remote_decode |-> TRUE, do_remote_prefill |-> FALSE,
                        remote_engine_id |-> None, remote_block_ids |-> None,
                        remote_host |-> None, remote_port |-> None]
                /\ \A k \in DOMAIN orig \ {"stream", "max_tokens",
                                           "max_completion_tokens",
                                           "stream_options", "kv_transfer_params"} :
                       sent[k] = orig[k]

\* C8, witness: the prefill call of a caller who gave every field, a
\* kv_transfer_params of its own included.
C8_Witness ==
    \E r \in Reqs :
        /\ Len(prefill_calls[r]) = 1
        /\ caller[r].payload = FullPayload
        /\ pc[r] = "prefill_wait"

\* C9 (as claimed): whenever the 2xx prefill response has a
\* kv_transfer_params field, the body of the decode call carries exactly
\* that value under kv_transfer_params, an empty mapping included.
C9_KvForwardedVerbatim ==
    \A r \in Reqs :
        (DecodeIssued(r) /\ Has(prefill_resp[r].json, "kv_transfer_params")) =>
            /\ Has(decode_calls[r][1].json, "kv_transfer_params")
            /\ decode_calls[r][1].json["kv_transfer_params"] =
                   prefill_resp[r].json["kv_transfer_params"]

\* C9 (amended): whenever the 2xx prefill response has a non-empty mapping
\* under kv_transfer_params, the body of the decode call carries exactly
\* that value under kv_transfer_params, in place of any value of the
\* caller; when the returned kv_transfer_params is an empty mapping or null,
\* the decode call carries the caller's body as it came, with the caller's
\* own kv_transfer_params if it had one and none otherwise.
C9_KvForwardedWhenNonEmpty ==
    \A r \in Reqs :
        (DecodeIssued(r) /\ Has(prefill_resp[r].json, "kv_transfer_params")) =>
            LET returned == prefill_resp[r].json["kv_transfer_params"]
                sent == decode_calls[r][1].json
            IN  IF returned # EmptyDict /\ returned # JsonNull
                THEN /\ Has(sent, "kv_transfer_params")
                     /\ sent["kv_transfer_params"] = returned
                ELSE sent = caller[r].payload

\* C9, witness: a decode call that carries the backend's kv_transfer_params
\* where the caller had supplied its own.
C9_Witness ==
    \E r \in Reqs :
        /\ DecodeIssued(r)
        /\ Has(caller[r].payload, "kv_transfer_params")
        /\ Has(prefill_resp[r].json, "kv_transfer_params")
        /\ prefill_resp[r].json["kv_transfer_params"] = BackendKV
        /\ decode_calls[r][1].json["kv_transfer_params"] = BackendKV

\* C10: the body of the decode call is the caller's body in every field
\* other than kv_transfer_params (stream, max_tokens, max_completion_tokens
\* and stream_options as the caller gave them or left them out), and when
\* the prefill response has no kv_transfer_params the decode call is issued
\* all the same, with the caller's body unchanged.
C10_DecodePayloadIsOriginal ==
    \A r \in Reqs :
        /\ DecodeIssued(r) =>
               LET sent == decode_calls[r][1].json
                   orig == caller[r].payload
               IN  /\ DOMAIN sent \ {"kv_transfer_params"} =
                          DOMAIN orig \ {"kv_transfer_params"}
                   /\ \A k \in DOMAIN orig \ {"kv_transfer_params"} :
                          sent[k] = orig[k]
                   /\ ~ Has(prefill_resp[r].json, "kv_transfer_params") =>
                          sent = orig
        /\ (pc[r] \in {"decode_wait", "streaming", "completed"}) => DecodeIssued(r)

\* C10, witness: the decode call of a caller who gave every field, after a
\* prefill response without kv_transfer_params.
C10_Witness ==
    \E r \in Reqs :
        /\ DecodeIssued(r)
        /\ caller[r].payload = FullPayload
        /\ ~ Has(prefill_resp[r].json, "kv_transfer_params")
        /\ decode_calls[r][1].json = FullPayload

\* The roles, the size of the pool of a role, and how often an index
\* occurs among the indices returned.
Roles == {"prefill", "decode"}

PoolSize(role) ==
    IF role = "prefill" THEN Len(prefill_clients) ELSE Len(decode_clients)

Count(seq, i) == Cardinality({k \in 1..Len(seq) : seq[k] = i})

\* C11: for each role with a pool of P >= 1 clients, the k-th selection
\* after startup (k = 0, 1, 2, ...) returns index k mod P: the first
\* returns 0, each later one returns the index before it plus one mod P,
\* and a pool of one client returns 0 every time.
C11_RoundRobinOrder ==
    \A role \in Roles :
        LET P == PoolSize(role)
            got == selected[role]
        IN  /\ P >= 1
            /\ \A k \in 1..Len(got) : got[k] = (k - 1) % P
            /\ Len(got) >= 1 => got[1] = 0
            /\ \A k \in 2..Len(got) : got[k] = (got[k - 1] + 1) % P
            /\ P = 1 => \A k \in 1..Len(got) : got[k] = 0

\* C11, witness: three selections over a prefill pool of two have come
\* round to index 0, and two selections over a decode pool of one have
\* both returned 0.
C11_Witness ==
    /\ Len(prefill_clients) = 2
    /\ selected["prefill"] = <<0, 1, 0>>
    /\ Len(decode_clients) = 1
    /\ selected["decode"] = <<0, 0>>

\* C12: in every interleaving of the handlers, after N selections for a
\* role with a pool of P clients every index 0..P-1 has been returned
\* floor(N/P) or ceil(N/P) times, any P selections in a row returned P
\* different indices, and the handlers hold between them exactly the
\* indices that were returned: none was lost and none was given twice for
\* one call.
C12_SelectionsSpreadEvenly ==
    /\ \A role \in Roles :
           LET P == PoolSize(role)
               got == selected[role]
               N == Len(got)
           IN  /\ \A i \in 0..(P - 1) :
                      Count(got, i) \in {N \div P, (N + P - 1) \div P}
               /\ \A k \in 1..(N - P + 1) :
                      Cardinality({got[j] : j \in k..(k + P - 1)}) = P
               /\ \A k \in 1..N : got[k] \in 0..(P - 1)
    /\ \A i \in 0..(Len(prefill_clients) - 1) :
           Cardinality({r \in AllReqs : local[r].prefill_client = i}) =
               Count(selected["prefill"], i)
    /\ \A i \in 0..(Len(decode_clients) - 1) :
           Cardinality({r \in AllReqs : local[r].decode_client = i}) =
               Count(selected["decode"], i)

\* C12, witness: three handlers are in flight over pools of two; the
\* second request's prefill call returned before the first one's, so the
\* decode clients were taken in another order than the prefill clients,
\* and the third request is still waiting for its prefill response.
C12_Witness ==
    /\ Len(prefill_clients) = 2 /\ Len(decode_clients) = 2
    /\ selected["prefill"] = <<0, 1, 0>>
    /\ selected["decode"] = <<0, 1>>
    /\ local[2].decode_client = 0
    /\ local[1].decode_client = 1
    /\ pc[3] = "prefill_wait"

\* C13: each role has its own cursor.  A selection for one role leaves the
\* cursor and the history of the other role as they were, and the cursor
\* of a role is the number of selections made for that role mod the size
\* of its pool, however many were made for the other role.
C13_CursorsIndependent ==
    /\ [](/\ prefill_iterator = Len(selected["prefill"]) % Len(prefill_clients)
          /\ decode_iterator = Len(selected["decode"]) % Len(decode_clients))
    /\ [][/\ selected["prefill"]' # selected["prefill"] =>
                 /\ decode_iterator' = decode_iterator
                 /\ selected["decode"]' = selected["decode"]
          /\ selected["decode"]' # selected["decode"] =>
                 /\ prefill_iterator' = prefill_iterator
                 /\ selected["prefill"]' = selected["prefill"]]_vars

\* C13, witness: over pools of two, three prefill selections and one
\* decode selection have been made: both cursors stand at 1.
C13_Witness ==
    /\ Len(prefill_clients) = 2 /\ Len(decode_clients) = 2
    /\ Len(selected["prefill"]) = 3
    /\ Len(selected["decode"]) = 1
    /\ prefill_iterator = 1
    /\ decode_iterator = 1

\* C14 (as claimed): at every moment of a stream the caller has been given
\* as many chunks as were received from the decode backend, in the order
\* received (each is relayed in the step that reads it, before the next is
\* read), and every chunk other than the first is the chunk received; the
\* first is the chunk received or its one re-serialised event.
C14_ChunksRelayedAsReceived ==
    \A r \in Reqs :
        /\ Len(caller[r].chunks) = Len(decode_chunks[r])
        /\ Len(decode_chunks[r]) >= 1 =>
               \/ caller[r].chunks[1] = decode_chunks[r][1]
               \/ /\ inject_rewrites(decode_chunks[r][1])
                  /\ caller[r].chunks[1].fmt = "dumps"
        /\ \A i \in 2..Len(decode_chunks[r]) :
               caller[r].chunks[i] = decode_chunks[r][i]

\* C15: no call is repeated.  A request has at most one prefill call and
\* at most one decode call, whatever the backends answer, and a request
\* whose prefill call failed (an answer that is not 2xx, or no connection)
\* is in the error state with its one prefill call, no decode client and
\* no decode call.
C15_NoRetry ==
    \A r \in Reqs :
        /\ Len(prefill_calls[r]) <= 1
        /\ Len(decode_calls[r]) <= 1
        /\ (PrefillReturned(r) /\ prefill_resp[r].status \notin 200..299) =>
               /\ pc[r] = "errored"
               /\ Len(prefill_calls[r]) = 1
               /\ local[r].decode_client = NoClient
               /\ decode_calls[r] = <<>>

\* C15, witness: the prefill backend could not be connected to; the
\* request has ended in the error state after its one prefill call.
C15_Witness ==
    \E r \in Reqs :
        /\ pc[r] = "errored"
        /\ prefill_resp[r] = ConnectFailure
        /\ Len(prefill_calls[r]) = 1
        /\ decode_calls[r] = <<>>

\* What a request has logged.
Logged(r, tag) == \E i \in 1..Len(log[r]) : log[r][i].tag = tag

TagCount(r, tag) == Cardinality({i \in 1..Len(log[r]) : log[r][i].tag = tag})

\* The phases of a request in their order, and what tells that a request
\* has entered a phase: the record it logs or the call it issues there.
Phases ==
    <<"STARTED", "PREFILL_SENT", "PREFILL_DONE", "DECODE_SENT", "STREAMING",
      "COMPLETED">>

Entered(r, phase) ==
    CASE phase = "STARTED" -> Logged(r, "PROXY_START")
      [] phase = "PREFILL_SENT" -> Len(prefill_calls[r]) >= 1
      [] phase = "PREFILL_DONE" -> Logged(r, "PREFILL_REQUEST_END")
      [] phase = "DECODE_SENT" -> Logged(r, "DECODE_REQUEST_START")
      [] phase = "STREAMING" -> decode_resp[r].status \in 200..299
      [] phase = "COMPLETED" -> Logged(r, "REQUEST_COMPLETE")

Terminal(r) == pc[r] \in {"completed", "errored"}

\* A step that takes request r into the error state.
ErrorStep(r) == NextLifecycle /\ pc'[r] = "errored"

\* C16, the states: a request has entered a phase only after every phase
\* before it and enters no phase twice; it is COMPLETED exactly when its
\* handler has run to its end, and ERRORED can be entered from every phase
\* that is not terminal: on arrival (from STARTED, before anything is
\* sent), while the prefill call is out (from PREFILL_SENT, and from
\* PREFILL_DONE when reading the answer fails), while the decode call is
\* out and while the stream runs.
PhasesInOrder ==
    \A r \in Reqs :
        /\ \A i \in 2..Len(Phases) :
               Entered(r, Phases[i]) => Entered(r, Phases[i - 1])
        /\ \A tag \in {"PROXY_START", "PREFILL_REQUEST_END",
                       "DECODE_REQUEST_START", "REQUEST_COMPLETE"} :
               TagCount(r, tag) <= 1
        /\ Len(prefill_calls[r]) <= 1 /\ Len(decode_calls[r]) <= 1
        /\ pc[r] = "completed" <=> Entered(r, "COMPLETED")
        /\ pc[r] = "errored" => ~ Entered(r, "COMPLETED")

ErrorReachable ==
    /\ pc[1] = "idle" =>
           ENABLED (ErrorStep(1) /\ Len(prefill_calls'[1]) = 0)
    /\ pc[1] = "prefill_wait" =>
           /\ ENABLED (ErrorStep(1) /\ ~ Entered(1, "PREFILL_DONE")')
           /\ ENABLED (ErrorStep(1) /\ Entered(1, "PREFILL_DONE")')
    /\ pc[1] = "decode_wait" => ENABLED ErrorStep(1)
    /\ pc[1] = "streaming" => ENABLED ErrorStep(1)

\* C16, the steps: no step takes a phase back, and no step of a request
\* that is COMPLETED or ERRORED changes its phase, issues a call for it,
\* relays a chunk for it or logs a record for it.
PhasesForward ==
    \A r \in Reqs :
        /\ \A i \in 1..Len(Phases) :
               Entered(r, Phases[i]) => Entered(r, Phases[i])'
        /\ Terminal(r) =>
               /\ pc'[r] = pc[r]
               /\ prefill_calls'[r] = prefill_calls[r]
               /\ decode_calls'[r] = decode_calls[r]
               /\ decode_chunks'[r] = decode_chunks[r]
               /\ caller'[r] = caller[r]
               /\ log'[r] = log[r]

\* C16: the phase of a request moves forward only, along STARTED,
\* PREFILL_SENT, PREFILL_DONE, DECODE_SENT, STREAMING, COMPLETED, without
\* leaving one out or coming back to one; ERRORED can be reached from
\* every phase that is not terminal; COMPLETED and ERRORED are absorbing.
C16_PhaseMachine == [](PhasesInOrder /\ ErrorReachable) /\ [][PhasesForward]_vars

\* C16, witness: a request that went through every phase up to STREAMING
\* and had a chunk relayed has ended in the error state.
C16_Witness ==
    /\ pc[1] = "errored"
    /\ Entered(1, "STREAMING")
    /\ Len(caller[1].chunks) >= 1
    /\ caller[1].stream = "aborted"

\* C17, the steps: once the caller of a request has disconnected, no chunk
\* is read or relayed for the request and no call is issued for it, and a
\* connection that was given back is not taken again.
RelayStopped ==
    \A r \in Reqs :
        /\ caller[r].stream = "disconnected" =>
               /\ caller'[r] = caller[r]
               /\ decode_chunks'[r] = decode_chunks[r]
               /\ decode_calls'[r] = decode_calls[r]
               /\ log'[r] = log[r]
        /\ decode_stream[r] = "closed" => decode_stream'[r] = "closed"

\* C17: when the caller disconnects while the decode call is out or the
\* stream runs, the proxy stops relaying, and the streamed connection to
\* the decode backend that was opened for the request is given back in the
\* end: no disconnected request keeps its decode stream open for ever.
C17_DisconnectReleasesStream ==
    /\ [][RelayStopped]_vars
    /\ \A r \in Reqs :
           (caller[r].stream = "disconnected") ~> (decode_stream[r] = "closed")

\* C17, witness: the caller left after one chunk had been relayed; the
\* connection of the decode stream has been given back with no further
\* chunk relayed.
C17_Witness ==
    /\ pc[1] = "disconnected"
    /\ caller[1].stream = "disconnected"
    /\ Len(caller[1].chunks) = 1
    /\ Len(decode_calls[1]) = 1
    /\ decode_stream[1] = "closed"

\* C18: a request whose backend never answers holds up no other request.
\* Whatever the first request does, and if it stays suspended for ever on
\* its prefill call or on a chunk of its decode stream, every other request
\* whose backends answer runs on from its prefill call to COMPLETED.
C18_HangIsLocal ==
    \A r \in Reqs \ {1} : (pc[r] = "prefill_wait") ~> (pc[r] = "completed")

\* C18, witness: the first request is still suspended on its prefill call
\* when a request that arrived after it has completed.
C18_Witness ==
    \E r \in Reqs \ {1} :
        /\ pc[1] = "prefill_wait"
        /\ pc[r] = "completed"
        /\ Len(caller[r].chunks) = MaxChunks

\* C19, the steps: after REQUEST_COMPLETE nothing is relayed or logged for
\* the request.
CompleteIsLast ==
    \A r \in Reqs :
        Logged(r, "REQUEST_COMPLETE") =>
            /\ caller'[r].chunks = caller[r].chunks
            /\ log'[r] = log[r]

\* C19: REQUEST_COMPLETE is logged at most once for a request, and it is
\* in the log exactly when the decode stream came to its normal end: then
\* it is the last record, written after every chunk received was relayed,
\* it carries the request_id of the request and total_duration_ms =
\* completion_time_ms - proxy_start_ms; a request that ended in the error
\* state or whose caller disconnected has no such record.
C19_RequestCompleteOnce ==
    /\ [](\A r \in Reqs :
            /\ TagCount(r, "REQUEST_COMPLETE") <= 1
            /\ Logged(r, "REQUEST_COMPLETE") <=>
                   (pc[r] = "completed" /\ caller[r].stream = "closed")
            /\ pc[r] = "completed" =>
                   LET line == log[r][Len(log[r])]
                   IN  /\ line.tag = "REQUEST_COMPLETE"
                       /\ line.request_id = local[r].request_id
                       /\ line.fields.total_duration_ms =
                              line.fields.completion_time_ms
                              - local[r].proxy_start_ms
                       /\ local[r].proxy_start_ms # NoTime
                       /\ Len(caller[r].chunks) = Len(decode_chunks[r])
                       /\ decode_stream[r] = "closed"
            /\ (pc[r] \in {"errored", "cancelled", "disconnected"}
                \/ caller[r].stream \in {"aborted", "disconnected"}) =>
                   ~ Logged(r, "REQUEST_COMPLETE"))
    /\ [][CompleteIsLast]_vars

\* C19, witness: a stream of two chunks has ended one millisecond after
\* the request arrived, and the record says so.
C19_Witness ==
    /\ pc[1] = "completed"
    /\ Len(caller[1].chunks) = 2
    /\ local[1].proxy_start_ms = 0
    /\ local[1].decode_start_ms = 1
    /\ log[1][Len(log[1])].tag = "REQUEST_COMPLETE"
    /\ log[1][Len(log[1])].fields.total_duration_ms = 1

\* C20, the states: two requests with the same body send the same body to
\* the prefill backend, and when their prefill calls also got the same
\* answer they hold the same prefill timing and send the same body to the
\* decode backend, whichever clients they were given and whatever ran
\* between their steps.
SameInputsSameCalls ==
    \A r, q \in Reqs :
        (/\ Len(prefill_calls[r]) = 1 /\ Len(prefill_calls[q]) = 1
         /\ caller[r].payload = caller[q].payload) =>
            /\ prefill_calls[r][1].json = prefill_calls[q][1].json
            /\ (/\ PrefillReturned(r) /\ PrefillReturned(q)
                /\ prefill_resp[r] = prefill_resp[q]) =>
                   /\ local[r].prefill_timing = local[q].prefill_timing
                   /\ (DecodeIssued(r) /\ DecodeIssued(q)) =>
                          decode_calls[r][1].json = decode_calls[q][1].json

\* C20, the steps: the body, the kv_transfer_params and the prefill timing
\* a request holds change only in a step of that request, and the body the
\* caller sent is never changed once it has arrived.
OwnStateOnly ==
    \A r \in Reqs :
        /\ (\/ local'[r].req_data # local[r].req_data
            \/ local'[r].prefill_timing # local[r].prefill_timing
            \/ caller'[r].payload # caller[r].payload) =>
               /\ pc'[r] # pc[r]
               /\ \A q \in Reqs \ {r} :
                      /\ pc'[q] = pc[q]
                      /\ local'[q] = local[q]
                      /\ caller'[q] = caller[q]
        /\ pc[r] # "idle" => caller'[r].payload = caller[r].payload

\* C20: what a request sends to its backends is a function of the body of
\* its caller and of the answer to its own prefill call, and of nothing
\* else: not of the cursors, not of the requests that run beside it.  No
\* request's body, kv_transfer_params or prefill timing is changed in the
\* step of another request.
C20_MutationsArePure == []SameInputsSameCalls /\ [][OwnStateOnly]_vars

\* C20, witness: two requests with every field in their body and the same
\* prefill answer have both issued their decode call, through different
\* prefill clients and with the decode clients taken in the other order.
C20_Witness ==
    /\ caller[1].payload = FullPayload /\ caller[2].payload = FullPayload
    /\ DecodeIssued(1) /\ DecodeIssued(2)
    /\ prefill_resp[1] = prefill_resp[2]
    /\ Has(prefill_resp[1].json, "kv_transfer_params")
    /\ prefill_calls[1][1].client # prefill_calls[2][1].client
    /\ decode_calls[1][1].client = 1
    /\ decode_calls[2][1].client = 0
    /\ decode_calls[1][1].json = decode_calls[2][1].json

(***************************************************************************)
(* Error records, request ids and phase markers in the log.                *)
(***************************************************************************)
\* The backend call of the phase was made and failed: the backend could
\* not be reached or answered with a status outside 2xx.
UpstreamFailed(r, phase) ==
    IF phase = "prefill"
    THEN Len(prefill_calls[r]) > 0 /\ PrefillReturned(r)
         /\ ~ IsSuccess(prefill_resp[r])
    ELSE DecodeIssued(r) /\ decode_resp[r] # NoResponse
         /\ ~ IsSuccess(decode_resp[r])

\* The client the request selected for the call of the phase.
SelectedEndpoint(r, phase) ==
    IF phase = "prefill" THEN local[r].prefill_client ELSE local[r].decode_client

\* C21: every upstream failure, in the prefill phase and in the decode
\* phase alike, has left an error record in the log of the request that
\* carries the request's request_id, the phase and the endpoint selected
\* for the failing call.
C21_UpstreamFailureLogged ==
    \A r \in Reqs : \A phase \in Roles :
        UpstreamFailed(r, phase) =>
            \E i \in 1..Len(log[r]) :
                /\ log[r][i].tag = "ERROR"
                /\ log[r][i].request_id = local[r].request_id
                /\ Get(log[r][i].fields, "phase", None) = phase
                /\ Has(log[r][i].fields, "endpoint")
                /\ log[r][i].fields["endpoint"] = SelectedEndpoint(r, phase)

(***************************************************************************)
(* The process from its command line to its exit: parse_args and           *)
(* uvicorn.run in the main block, the startup and the shutdown half of     *)
(* lifespan, and healthcheck.                                              *)
(***************************************************************************)
\* An option the command line does not name: argparse stores its default.
NotGiven == -1

Options ==
    {"prefiller_hosts", "prefiller_ports", "decoder_hosts", "decoder_ports"}

\* Every default of lines 100-118 is a list of one value.
values_of(args, option) == IF args[option] = NotGiven THEN 1 ELSE args[option]

Min(a, b) == IF a < b THEN a ELSE b

\* Mutant of parse_args: the lengths are not compared, and zip pairs the
\* hosts and the ports up to the shorter list.
parse_args_unchecked(args) ==
    IF \E option \in Options : args[option] = 0
    THEN [error |-> "SystemExit", prefiller_instances |-> 0,
          decoder_instances |-> 0]
    ELSE [error |-> "",
          prefiller_instances |-> Min(values_of(args, "prefiller_hosts"),
                                      values_of(args, "prefiller_ports")),
          decoder_instances |-> Min(values_of(args, "decoder_hosts"),
                                    values_of(args, "decoder_ports"))]

\* parse_args, lines 90-136.  Every list option has nargs="+": named
\* without a value it makes argparse print its usage and exit.  Lists of
\* different lengths raise ValueError (lines 123-129); otherwise
\* the instances are the pairs of zip (lines 132-134).
parse_args(args) ==
    IF \E option \in Options : args[option] = 0
    THEN [error |-> "SystemExit", prefiller_instances |-> 0,
          decoder_instances |-> 0]
    ELSE IF \/ values_of(args, "prefiller_hosts") # values_of(args, "prefiller_ports")
            \/ values_of(args, "decoder_hosts") # values_of(args, "decoder_ports")
    THEN [error |-> "ValueError", prefiller_instances |-> 0,
          decoder_instances |-> 0]
    ELSE [error |-> "",
          prefiller_instances |-> values_of(args, "prefiller_hosts"),
          decoder_instances |-> values_of(args, "decoder_hosts")]

\* The process has been started with some command line; nothing is built
\* yet and no socket is open.
InitStartup ==
    /\ argv \in [Options -> {NotGiven} \cup 0..NumPrefill]
    /\ argv["decoder_hosts"] <= NumDecode /\ argv["decoder_ports"] <= NumDecode
    /\ server = "starting"
    /\ prefill_clients = <<>>
    /\ decode_clients = <<>>
    /\ prefill_iterator = 0
    /\ decode_iterator = 0
    /\ selected = [prefill |-> <<>>, decode |-> <<>>]
    /\ NoRequests
    /\ NoWorker

\* The main block, lines 355-371, up to the yield of lifespan (line 76):
\* an exception of parse_args ends the process before uvicorn.run is
\* reached; otherwise uvicorn runs the startup half of lifespan and only
\* then accepts connections.
main ==
    /\ server = "starting"
    /\ LET global_args == parse_args(argv)
       IN  IF global_args.error # ""
           THEN /\ server' = "failed"
                /\ UNCHANGED <<pools, selectors>>
           ELSE /\ server' = "serving"
                /\ prefill_clients' = client_infos(global_args.prefiller_instances)
                /\ decode_clients' = client_infos(global_args.decoder_instances)
                /\ prefill_iterator' = 0
                /\ decode_iterator' = 0
                /\ selected' = [prefill |-> <<>>, decode |-> <<>>]
    /\ UNCHANGED <<now, uuid_next, pc, local, caller, prefill_calls,
                   prefill_resp, decode_calls, decode_resp, decode_chunks,
                   decode_stream, log, argv, worker>>

\* healthcheck, lines 345-352: what GET /healthcheck answers.
healthcheck_swapped ==
    [status |-> "ok",
     prefill_instances |-> Len(decode_clients),
     decode_instances |-> Len(prefill_clients)]

healthcheck ==
    [status |-> "ok",
     prefill_instances |-> Len(prefill_clients),
     decode_instances |-> Len(decode_clients)]

\* uvicorn stops serving and resumes lifespan after its yield (line 78).
shutdown ==
    /\ server = "serving"
    /\ server' = "closing"
    /\ UNCHANGED <<now, pools, selectors, uuid_next, pc, local, caller,
                   prefill_calls, prefill_resp, decode_calls, decode_resp,
                   decode_chunks, decode_stream, log, argv, worker>>

\* The handles not closed yet, of one pool.
open_clients(clients) == {i \in 1..Len(clients) : ~ clients[i].is_closed}

SetMin(S) == CHOOSE i \in S : \A j \in S : i <= j

\* One turn of the loops of lines 80-83: `await client_info['client']
\* .aclose()` on the next handle, the prefill pool first.  The loops have no
\* try: an exception of aclose() leaves lifespan at once, with the handle
\* not released and the handles after it not visited.  After the last
\* handle lifespan returns.
aclose_client(raises) ==
    /\ server = "closing"
    /\ LET p == open_clients(prefill_clients)
           d == open_clients(decode_clients)
       IN  IF raises
           THEN /\ server' = "stopped"
                /\ UNCHANGED pools
           ELSE IF p # {}
           THEN /\ prefill_clients' =
                       [prefill_clients EXCEPT ![SetMin(p)].is_closed = TRUE]
                /\ server' = IF Cardinality(p) = 1 /\ d = {}
                             THEN "stopped" ELSE "closing"
                /\ UNCHANGED decode_clients
           ELSE /\ decode_clients' =
                       [decode_clients EXCEPT ![SetMin(d)].is_closed = TRUE]
                /\ server' = IF Cardinality(d) = 1 THEN "stopped" ELSE "closing"
                /\ UNCHANGED prefill_clients
    /\ UNCHANGED <<now, selectors, uuid_next, pc, local, caller,
                   prefill_calls, prefill_resp, decode_calls, decode_resp,
                   decode_chunks, decode_stream, log, argv, worker>>

\* One request is served, through every end it can come to, between the
\* startup and the shutdown of a process started with any command line.
NextStartup ==
    \/ main
    \/ server = "serving" /\ NextLifecycle
    \/ shutdown
    \/ \E raises \in BOOLEAN : aclose_client(raises)

SpecStartup == InitStartup /\ [][NextStartup]_vars

(***************************************************************************)
(* Startup, the pools while the process serves, and shutdown.              *)
(***************************************************************************)
\* The hosts and the ports the command line leaves a role with.
HostCount(role) ==
    IF role = "prefill" THEN values_of(argv, "prefiller_hosts")
    ELSE values_of(argv, "decoder_hosts")

PortCount(role) ==
    IF role = "prefill" THEN values_of(argv, "prefiller_ports")
    ELSE values_of(argv, "decoder_ports")

\* A role's lists differ in length, or the role is left with no endpoint.
BadConfiguration ==
    \E role \in Roles :
        \/ HostCount(role) # PortCount(role)
        \/ HostCount(role) = 0
        \/ PortCount(role) = 0

Accepted(r) == pc[r] # "idle"

\* C22: a command line on which a role's host list and port list differ in
\* length, or which leaves a role without an endpoint, makes startup fail
\* before any request is accepted and before any pool is built; hence
\* whenever a request has been accepted, both pools are non-empty and both
\* cursors point at a client of their pool.
C22_StartupRejectsBadConfig ==
    /\ (BadConfiguration /\ server # "starting") =>
           /\ server = "failed"
           /\ \A r \in AllReqs : ~ Accepted(r)
           /\ prefill_clients = <<>> /\ decode_clients = <<>>
    /\ (server = "serving" \/ \E r \in AllReqs : Accepted(r)) =>
           /\ ~ BadConfiguration
           /\ Len(prefill_clients) >= 1 /\ Len(decode_clients) >= 1
           /\ prefill_iterator \in 0..(Len(prefill_clients) - 1)
           /\ decode_iterator \in 0..(Len(decode_clients) - 1)
           /\ next_client("prefill").idx + 1 \in DOMAIN prefill_clients
           /\ next_client("decode").idx + 1 \in DOMAIN decode_clients

\* C22, witness: two prefill hosts were given with one prefill port, and
\* the process has ended in its startup.
C22_Witness ==
    /\ argv["prefiller_hosts"] = 2 /\ argv["prefiller_ports"] = 1
    /\ argv["decoder_hosts"] = NotGiven /\ argv["decoder_ports"] = NotGiven
    /\ server = "failed"

\* While the process serves, no step changes a pool: no handle is added,
\* removed, replaced or closed.
PoolsFixed ==
    (server = "serving" /\ server' = "serving") =>
        /\ prefill_clients' = prefill_clients
        /\ decode_clients' = decode_clients

\* What GET /healthcheck answers while the process serves.
HealthReportsConfiguration ==
    server = "serving" =>
        /\ healthcheck = [status |-> "ok",
                          prefill_instances |-> HostCount("prefill"),
                          decode_instances |-> HostCount("decode")]
        /\ open_clients(prefill_clients) = DOMAIN prefill_clients
        /\ open_clients(decode_clients) = DOMAIN decode_clients

\* C26: the pools are fixed once startup is over: no step of a request, be
\* it an error or the caller's disconnect, adds, removes, replaces or
\* closes a client handle, and between startup and shutdown GET
\* /healthcheck answers status "ok" with prefill_instances and
\* decode_instances equal to the numbers of endpoints configured.
C26_PoolsFixedWhileServing == []HealthReportsConfiguration /\ [][PoolsFixed]_vars

\* C26, witness: a process configured with two prefill endpoints and one
\* decode endpoint has had a request fail and reports two and one.
C26_Witness ==
    /\ server = "serving"
    /\ HostCount("prefill") = 2 /\ HostCount("decode") = 1
    /\ pc[1] = "errored"
    /\ healthcheck.prefill_instances = 2
    /\ healthcheck.decode_instances = 1

\* C27: once the shutdown half of lifespan is over, every handle built at
\* startup, of either role, is closed, also when closing one of them
\* failed.
C27_AllClosedAfterShutdown ==
    server = "stopped" =>
        /\ open_clients(prefill_clients) = {}
        /\ open_clients(decode_clients) = {}

\* Both backend calls of a request carry, as X-Request-Id, the request_id
\* its handler allocated.
BackendCallsCarryRequestId ==
    \A r \in Reqs :
        /\ \A i \in 1..Len(prefill_calls[r]) :
               prefill_calls[r][i].request_id = local[r].request_id
        /\ \A i \in 1..Len(decode_calls[r]) :
               decode_calls[r][i].request_id = local[r].request_id

\* Two requests that have both arrived hold different request_ids.
RequestIdsDistinct ==
    \A r, q \in Reqs :
        (r # q /\ Accepted(r) /\ Accepted(q)) =>
            local[r].request_id # local[q].request_id

\* Every record a request logged carries its request_id.
LogLinesCarryRequestId ==
    \A r \in Reqs : \A i \in 1..Len(log[r]) :
        log[r][i].request_id = local[r].request_id

\* C23: both backend calls of a request carry the same X-Request-Id, equal
\* to the request_id allocated when the request started and to the
\* request_id of every log line of that request, and two distinct inbound
\* requests never share a request_id.
C23_OneRequestIdThroughout ==
    /\ BackendCallsCarryRequestId
    /\ RequestIdsDistinct
    /\ LogLinesCarryRequestId

\* The phase markers, in the order of the phases.
Markers ==
    <<"PROXY_START", "PREFILL_REQUEST_END", "DECODE_REQUEST_START",
      "FIRST_TOKEN", "REQUEST_COMPLETE">>

\* Where in the log of r the marker stands, for a marker that is logged.
Position(r, tag) == CHOOSE i \in 1..Len(log[r]) : log[r][i].tag = tag

\* Each marker at most once, with the request_id of the request, and the
\* markers that are logged in the order of the phases.
MarkersOnceInOrder(r) ==
    /\ \A m \in 1..Len(Markers) : TagCount(r, Markers[m]) <= 1
    /\ \A i \in 1..Len(log[r]) :
           (\E m \in 1..Len(Markers) : log[r][i].tag = Markers[m]) =>
               log[r][i].request_id = local[r].request_id
    /\ \A m, n \in 1..Len(Markers) :
           (m < n /\ Logged(r, Markers[m]) /\ Logged(r, Markers[n])) =>
               Position(r, Markers[m]) < Position(r, Markers[n])

\* FIRST_TOKEN once for a request that has received a chunk.
FirstTokenOnce(r) ==
    Len(decode_chunks[r]) >= 1 => TagCount(r, "FIRST_TOKEN") = 1

\* C24: the phase markers of a request appear in the order PROXY_START,
\* PREFILL_REQUEST_END, DECODE_REQUEST_START, FIRST_TOKEN, REQUEST_COMPLETE,
\* each at most once and with the request's request_id; a marker is logged
\* only after all earlier markers have been logged; FIRST_TOKEN is logged
\* exactly once for a request that receives at least one chunk.
C24_MarkersAfterAllEarlier ==
    \A r \in Reqs :
        /\ MarkersOnceInOrder(r)
        /\ FirstTokenOnce(r)
        /\ \A m, n \in 1..Len(Markers) :
               (m < n /\ Logged(r, Markers[n])) => Logged(r, Markers[m])

\* C24 (amended): as above, except that FIRST_TOKEN is logged exactly when
\* a chunk has been received: a decode stream that ends before its first
\* chunk is followed by REQUEST_COMPLETE without FIRST_TOKEN.  Every other
\* marker is logged only after all markers before it.
C24_MarkersInOrder ==
    \A r \in Reqs :
        /\ MarkersOnceInOrder(r)
        /\ FirstTokenOnce(r)
        /\ Logged(r, "FIRST_TOKEN") <=> Len(decode_chunks[r]) >= 1
        /\ \A m, n \in 1..Len(Markers) :
               (m < n /\ Logged(r, Markers[n]) /\ Markers[m] # "FIRST_TOKEN") =>
                   Logged(r, Markers[m])

\* C24, witness: a request has completed after two chunks, with all five
\* markers in its log.
C24_Witness ==
    /\ pc[1] = "completed"
    /\ Len(decode_chunks[1]) = 2
    /\ \A m \in 1..Len(Markers) : Logged(1, Markers[m])

(***************************************************************************)
(* get_timestamp_ms reads time.time(), the clock of the system, which an   *)
(* administrator or a time service can set back while a request runs.      *)
(***************************************************************************)
clock_set_back ==
    /\ now > 0
    /\ now' = now - 1
    /\ UNCHANGED <<pools, offstage, selectors, uuid_next, pc, local, caller,
                   prefill_calls, prefill_resp, decode_calls, decode_resp,
                   decode_chunks, decode_stream, log>>

\* One request runs while the clock of the system moves on and is set back.
NextClock ==
    \/ \E payload \in Payloads : dispatch(1, payload)
    \/ \E resp \in PrefillResponses : prefill_returns(1, resp)
    \/ stream_service_response(1)
    \/ \E resp \in DecodeResponses : decode_responds(1, resp)
    \/ \E chunk \in Chunks : receive_chunk(1, chunk)
    \/ stream_end(1)
    \/ Tick
    \/ clock_set_back

SpecClock == Init /\ [][NextClock]_vars

\* The checkpoints of r in the order of the phases; completion is read
\* from the REQUEST_COMPLETE record.
Checkpoints(r) ==
    <<local[r].proxy_start_ms, local[r].prefill_start_ms,
      local[r].prefill_end_ms, local[r].decode_start_ms,
      local[r].first_token_ms,
      IF Logged(r, "REQUEST_COMPLETE")
      THEN log[r][Position(r, "REQUEST_COMPLETE")].fields["completion_time_ms"]
      ELSE NoTime>>

\* The durations the records of the log report.
Durations == {"prefill_duration_ms", "prefill_to_decode_gap_ms",
              "decode_queue_time_ms", "total_duration_ms"}

\* C25: the checkpoints of a request that are recorded so far do not
\* decrease in the order proxy_start, prefill_start, prefill_end,
\* decode_start, first_token, completion, and every duration logged is
\* non-negative.
C25_CheckpointsMonotonic ==
    \A r \in Reqs :
        /\ \A m, n \in 1..Len(Checkpoints(r)) :
               (m < n /\ Checkpoints(r)[m] # NoTime /\ Checkpoints(r)[n] # NoTime) =>
                   Checkpoints(r)[m] <= Checkpoints(r)[n]
        /\ \A i \in 1..Len(log[r]) : \A d \in Durations :
               Has(log[r][i].fields, d) => log[r][i].fields[d] >= 0

(***************************************************************************)
(* The cursors and the outcome of the prefill call.                        *)
(***************************************************************************)
\* The requests a client of the role has been selected for.
Selecting(role) ==
    {r \in Selectors : SelectedEndpoint(r, role) # NoClient}

\* C28: the prefill cursor advances once for every request that has reached
\* dispatch, whatever becomes of its prefill call; the decode cursor
\* advances only for requests whose prefill call has succeeded; there are
\* never more decode selections than prefill selections, and a failed
\* prefill call takes no decode client.
C28_DecodeSlotOnlyAfterPrefill ==
    /\ Len(selected["prefill"]) = Cardinality({r \in Selectors : Accepted(r)})
    /\ Selecting("prefill") = {r \in Selectors : Accepted(r)}
    /\ Len(selected["decode"]) = Cardinality(Selecting("decode"))
    /\ \A r \in Selecting("decode") :
           PrefillReturned(r) /\ IsSuccess(prefill_resp[r])
    /\ Len(selected["decode"]) <= Len(selected["prefill"])
    /\ prefill_iterator = Len(selected["prefill"]) % PoolSize("prefill")
    /\ decode_iterator = Len(selected["decode"]) % PoolSize("decode")
    /\ \A r \in Selectors :
           (PrefillReturned(r) /\ ~ IsSuccess(prefill_resp[r])) =>
               /\ r \notin Selecting("decode")
               /\ ~ DecodeIssued(r)

\* C28, witness: of three requests dispatched, the prefill call of one has
\* failed and that of another has succeeded: three prefill selections and
\* one decode selection.
C28_Witness ==
    /\ \A r \in Selectors : Accepted(r)
    /\ \E r \in Selectors : PrefillReturned(r) /\ ~ IsSuccess(prefill_resp[r])
    /\ Len(selected["prefill"]) = 3
    /\ Len(selected["decode"]) = 1

(***************************************************************************)
(* KVConnectorModelRunnerMixin: the steps of a worker's model runner that  *)
(* touch the KV connector.  A call of a method is synchronous and is one   *)
(* step.  Durations are differences of time.monotonic(), counted in ticks. *)
(***************************************************************************)
MaxSteps == 2

\* scheduler_output.kv_connector_metadata is None.
NoMetadata == 0

\* has_kv_transfer_group()
has_kv_transfer_group == kv_transfer_group.present

\* The scheduler outputs of a step: the keys of num_scheduled_tokens, the
\* connector metadata, which is None or made for this step, and the
\* requests that have finished.
SchedulerOutput(num_scheduled_tokens, kv_connector_metadata, finished_req_ids) ==
    [num_scheduled_tokens |-> num_scheduled_tokens,
     kv_connector_metadata |-> kv_connector_metadata,
     finished_req_ids |-> finished_req_ids]

SchedulerOutputs ==
    {SchedulerOutput(ids, m, {}) :
        ids \in SUBSET KVReqIds, m \in {NoMetadata, steps.count + 1}}

\* How long a transfer may take, in ticks.
Took == {1, 2}

\* What get_finished of the connector may answer: finished_sending and
\* finished_recving.
FinishedAnswers ==
    {<<NoSet, NoSet>>, <<SomeSet({}), SomeSet({})>>, <<SomeSet({}), NoSet>>,
     <<SomeSet({"req-a"}), NoSet>>, <<NoSet, SomeSet({"req-a", "req-b"})>>}

\* A request the runner tracks, before any transfer was timed for it.
NewRequestState == [kv_load_time |-> 0, kv_save_time |-> 0]

\* A runner with its connector or without, tracking some of the requests;
\* the proxy is not involved.
InitRunner ==
    /\ lifespan(NumPrefill, NumDecode)
    /\ NoRequests
    /\ kv_transfer_group \in
           {[present |-> p, metadata |-> NoMetadata, calls |-> <<>>] :
               p \in BOOLEAN}
    /\ runner \in
           {EmptyDict}
           \cup {[requests |-> [id \in tracked |-> NewRequestState]] :
                    tracked \in SUBSET KVReqIds}
    /\ EMPTY_MODEL_RUNNER_OUTPUT = EmptyOutput
    /\ result = [call |-> "none"]
    /\ steps = NoSteps

\* The state of the proxy, which no method of the mixin touches.
proxy == <<now, pools, selectors, uuid_next, pc, local, caller, prefill_calls,
           prefill_resp, decode_calls, decode_resp, decode_chunks,
           decode_stream, log, lifecycle>>

\* Mutant of accumulate: the time of the step overwrites the time so far.
accumulate_overwrites(requests, active_req_ids, field, took) ==
    [req_id \in DOMAIN requests |->
        IF req_id \in active_req_ids
        THEN [requests[req_id] EXCEPT ![field] = took]
        ELSE requests[req_id]]

\* Lines 57-61 and 121-125: `self.requests[req_id].<field> += took` for
\* every active request the runner tracks.
accumulate(requests, active_req_ids, field, took) ==
    [req_id \in DOMAIN requests |->
        IF req_id \in active_req_ids
        THEN [requests[req_id] EXCEPT ![field] = @ + took]
        ELSE requests[req_id]]

\* Lines 50-61 and 114-125: the runner after the time of a transfer was
\* added; a runner without an attribute `requests` is left as it is.
track(self, scheduler_output, field, took) ==
    IF Has(self, "requests")
    THEN [self EXCEPT !["requests"] =
              accumulate(@, scheduler_output.num_scheduled_tokens, field, took)]
    ELSE self

\* maybe_setup_kv_connector_with_timing, lines 27-61: the connector and
\* the runner after the call, and whether the assertion of line 35 failed.
maybe_setup_kv_connector_with_timing(scheduler_output, took) ==
    IF ~ has_kv_transfer_group
    THEN [raised |-> FALSE, kv_connector |-> kv_transfer_group, self |-> runner]
    ELSE IF scheduler_output.kv_connector_metadata = NoMetadata
    THEN [raised |-> TRUE, kv_connector |-> kv_transfer_group, self |-> runner]
    ELSE [raised |-> FALSE,
          kv_connector |->
              [kv_transfer_group EXCEPT
                  !.metadata = scheduler_output.kv_connector_metadata,
                  !.calls = @ \o <<"bind_connector_metadata", "start_load_kv">>],
          self |-> track(runner, scheduler_output, "kv_load_time", took)]

\* A step of the runner: which transfer, for which scheduler output, and
\* how long the connector took.
Step(transfer, scheduler_output, took) ==
    [transfer |-> transfer, scheduler_output |-> scheduler_output, took |-> took]

\* The steps after one more.  The connector transfers if there is one and,
\* for a load, if the step has metadata to bind; the time it takes is
\* added to the total of every request scheduled in the step.
record(transfer, scheduler_output, took) ==
    LET ran == /\ has_kv_transfer_group
               /\ \/ transfer = "save"
                  \/ scheduler_output.kv_connector_metadata # NoMetadata
        field == IF transfer = "load" THEN "kv_load_time" ELSE "kv_save_time"
    IN  [count |-> steps.count + 1,
         last |-> Step(transfer, scheduler_output, took),
         total |-> [req_id \in KVReqIds |->
                       IF ran /\ req_id \in scheduler_output.num_scheduled_tokens
                       THEN [steps.total[req_id] EXCEPT ![field] = @ + took]
                       ELSE steps.total[req_id]]]

\* execute_model calls maybe_setup_kv_connector_with_timing before the
\* forward pass.
setup_kv_connector(scheduler_output, took) ==
    /\ steps.count < MaxSteps
    /\ LET after == maybe_setup_kv_connector_with_timing(scheduler_output, took)
       IN  /\ kv_transfer_group' = after.kv_connector
           /\ runner' = after.self
           /\ result' = [call |-> "maybe_setup_kv_connector_with_timing",
                         raised |-> after.raised]
    /\ steps' = record("load", scheduler_output, took)
    /\ UNCHANGED <<proxy, EMPTY_MODEL_RUNNER_OUTPUT>>

\* maybe_wait_for_kv_save_with_timing, lines 99-128.
maybe_wait_for_kv_save_with_timing(scheduler_output, took) ==
    /\ steps.count < MaxSteps
    /\ IF has_kv_transfer_group
       THEN /\ kv_transfer_group' =
                   [kv_transfer_group EXCEPT !.calls = Append(@, "wait_for_save")]
            /\ runner' = track(runner, scheduler_output, "kv_save_time", took)
            /\ result' = [call |-> "maybe_wait_for_kv_save_with_timing",
                          value |-> took]
       ELSE /\ result' = [call |-> "maybe_wait_for_kv_save_with_timing",
                          value |-> 0]
            /\ UNCHANGED <<kv_transfer_group, runner>>
    /\ steps' = record("save", scheduler_output, took)
    /\ UNCHANGED <<proxy, EMPTY_MODEL_RUNNER_OUTPUT>>

\* get_finished_kv_transfers, lines 130-137, for a connector that answers
\* get_finished with the given pair.
get_finished_kv_transfers(finished) ==
    IF has_kv_transfer_group THEN finished ELSE <<NoSet, NoSet>>

\* `not finished`: None and the empty set are false.
Falsy(optional_set) == Len(optional_set) = 0 \/ optional_set[1] = {}

\* Mutant of kv_connector_no_forward: the two sets are assigned to the
\* shared object, which is returned.
kv_connector_no_forward_in_place(finished_sending, finished_recving) ==
    IF Falsy(finished_sending) /\ Falsy(finished_recving)
    THEN [object |-> "EMPTY_MODEL_RUNNER_OUTPUT",
          output |-> EMPTY_MODEL_RUNNER_OUTPUT,
          shared |-> EMPTY_MODEL_RUNNER_OUTPUT]
    ELSE [object |-> "EMPTY_MODEL_RUNNER_OUTPUT",
          output |-> [EMPTY_MODEL_RUNNER_OUTPUT EXCEPT
                         !.finished_sending = finished_sending,
                         !.finished_recving = finished_recving],
          shared |-> [EMPTY_MODEL_RUNNER_OUTPUT EXCEPT
                         !.finished_sending = finished_sending,
                         !.finished_recving = finished_recving]]

\* kv_connector_no_forward, lines 147-153: the object returned, what it
\* holds, and the shared object after the call.  copy.copy makes a new
\* object; the two assignments bind attributes of the copy.
kv_connector_no_forward(finished_sending, finished_recving) ==
    IF Falsy(finished_sending) /\ Falsy(finished_recving)
    THEN [object |-> "EMPTY_MODEL_RUNNER_OUTPUT",
          output |-> EMPTY_MODEL_RUNNER_OUTPUT,
          shared |-> EMPTY_MODEL_RUNNER_OUTPUT]
    ELSE [object |-> "copy",
          output |-> [EMPTY_MODEL_RUNNER_OUTPUT EXCEPT
                         !.finished_sending = finished_sending,
                         !.finished_recving = finished_recving],
          shared |-> EMPTY_MODEL_RUNNER_OUTPUT]

\* kv_connector_no_forward, lines 139-153, as a step: the setup of lines
\* 142-143, then get_finished_kv_transfers, then the choice of the output.
no_forward(scheduler_output, took, finished) ==
    /\ steps.count < MaxSteps
    /\ LET after == maybe_setup_kv_connector_with_timing(scheduler_output, took)
           answered == get_finished_kv_transfers(finished)
           out == kv_connector_no_forward(answered[1], answered[2])
       IN  IF after.raised
           THEN /\ result' = [call |-> "kv_connector_no_forward", raised |-> TRUE]
                /\ UNCHANGED <<kv_transfer_group, runner, EMPTY_MODEL_RUNNER_OUTPUT>>
           ELSE /\ kv_transfer_group' =
                       IF has_kv_transfer_group
                       THEN [after.kv_connector EXCEPT
                                !.calls = Append(@, "get_finished")]
                       ELSE after.kv_connector
                /\ runner' = after.self
                /\ EMPTY_MODEL_RUNNER_OUTPUT' = out.shared
                /\ result' = [call |-> "kv_connector_no_forward",
                              raised |-> FALSE,
                              finished |-> answered,
                              object |-> out.object,
                              output |-> out.output]
    /\ steps' = record("load", scheduler_output, took)
    /\ UNCHANGED proxy

\* log_kv_transfer_cumulative_time, lines 155-164: the record it logs for
\* req_id, or none; the state is left as it is.
log_kv_transfer_cumulative_time(req_id) ==
    IF Has(runner, "requests") /\ req_id \in DOMAIN runner["requests"]
    THEN <<[req_id |-> req_id,
            kv_load_time |-> runner["requests"][req_id].kv_load_time,
            kv_save_time |-> runner["requests"][req_id].kv_save_time]>>
    ELSE <<>>

NextRunner ==
    \/ \E scheduler_output \in SchedulerOutputs, took \in Took :
           setup_kv_connector(scheduler_output, took)
    \/ \E scheduler_output \in SchedulerOutputs, took \in Took :
           maybe_wait_for_kv_save_with_timing(scheduler_output, took)
    \/ \E scheduler_output \in SchedulerOutputs, took \in Took,
          finished \in FinishedAnswers :
           no_forward(scheduler_output, took, finished)

SpecRunner == InitRunner /\ [][NextRunner]_vars

(***************************************************************************)
(* The timing of KV transfers and the output of a step without forward.    *)
(***************************************************************************)
\* The requests the runner tracks.
Tracked == IF Has(runner, "requests") THEN DOMAIN runner["requests"] ELSE {}

\* The times the runner holds are the totals of the steps: for every
\* tracked request the time of every transfer of a step in which it was
\* scheduled, and this is what log_kv_transfer_cumulative_time logs.
TimesAreTotals ==
    \A req_id \in Tracked :
        /\ runner["requests"][req_id] = steps.total[req_id]
        /\ log_kv_transfer_cumulative_time(req_id) =
               <<[req_id |-> req_id,
                  kv_load_time |-> steps.total[req_id].kv_load_time,
                  kv_save_time |-> steps.total[req_id].kv_save_time]>>

\* Without a KV transfer group no time changes and the wait for the save
\* returns 0.
NoGroupNoTiming ==
    ~ has_kv_transfer_group =>
        /\ \A req_id \in Tracked : runner["requests"][req_id] = NewRequestState
        /\ result.call = "maybe_wait_for_kv_save_with_timing" => result.value = 0
        /\ kv_transfer_group.calls = <<>>

\* The time of the step just made, if the connector transferred in it.
Transferred(step) ==
    IF /\ has_kv_transfer_group
       /\ \/ step.transfer = "save"
          \/ step.scheduler_output.kv_connector_metadata # NoMetadata
    THEN step.took ELSE 0

\* A step adds the whole of its time to the time of its transfer for every
\* tracked request it scheduled, and leaves every other time as it was.
StepAddsWholeTime ==
    steps'.count = steps.count + 1 =>
        \A req_id \in Tracked :
            LET before == runner["requests"][req_id]
                after == runner'["requests"][req_id]
                scheduled ==
                    req_id \in steps'.last.scheduler_output.num_scheduled_tokens
                load == IF scheduled /\ steps'.last.transfer = "load"
                        THEN Transferred(steps'.last) ELSE 0
                save == IF scheduled /\ steps'.last.transfer = "save"
                        THEN Transferred(steps'.last) ELSE 0
            IN  /\ after.kv_load_time = before.kv_load_time + load
                /\ after.kv_save_time = before.kv_save_time + save

\* C29: KV transfer time is accumulated per request and never overwritten:
\* a step adds its whole batch-level duration, undivided, to kv_load_time
\* or kv_save_time of every request that is scheduled in it and tracked,
\* and changes no other tracked request; the cumulative time logged for a
\* request is the sum of the durations of the steps in which it was
\* scheduled; without a KV transfer group no time changes and the wait for
\* the save returns 0.
C29_TransferTimeAccumulates ==
    [](TimesAreTotals /\ NoGroupNoTiming) /\ [][StepAddsWholeTime]_vars

\* C29, witness: req-a was scheduled in two steps of a runner that tracks
\* both requests, req-b in the second only, and the load of each step took
\* two ticks.
C29_Witness ==
    /\ has_kv_transfer_group
    /\ Tracked = KVReqIds
    /\ steps.count = 2
    /\ steps.last = Step("load", SchedulerOutput(KVReqIds, 2, {}), 2)
    /\ runner["requests"]["req-a"].kv_load_time = 4
    /\ runner["requests"]["req-b"].kv_load_time = 2

\* The last call was kv_connector_no_forward and it returned.
NoForwardReturned ==
    result.call = "kv_connector_no_forward" /\ ~ result.raised

\* What a call of kv_connector_no_forward returns.
NoForwardOutput ==
    NoForwardReturned =>
        /\ result.object = "EMPTY_MODEL_RUNNER_OUTPUT" <=>
               (Falsy(result.finished[1]) /\ Falsy(result.finished[2]))
        /\ result.object = "EMPTY_MODEL_RUNNER_OUTPUT" =>
               result.output = EMPTY_MODEL_RUNNER_OUTPUT
        /\ result.object # "EMPTY_MODEL_RUNNER_OUTPUT" =>
               /\ result.object = "copy"
               /\ result.output.finished_sending = result.finished[1]
               /\ result.output.finished_recving = result.finished[2]
        /\ has_kv_transfer_group =>
               /\ kv_transfer_group.metadata = steps.last.scheduler_output.kv_connector_metadata
               /\ Len(kv_transfer_group.calls) >= 3
               /\ SubSeq(kv_transfer_group.calls,
                         Len(kv_transfer_group.calls) - 2,
                         Len(kv_transfer_group.calls)) =
                      <<"bind_connector_metadata", "start_load_kv", "get_finished">>
        /\ ~ has_kv_transfer_group => result.finished = <<NoSet, NoSet>>

\* C30: kv_connector_no_forward first binds the connector metadata and
\* starts the KV load, then asks for the finished transfers; it returns
\* the shared EMPTY_MODEL_RUNNER_OUTPUT exactly when finished_sending and
\* finished_recving are both empty or None, and otherwise a fresh copy that
\* carries both; the shared object is never modified.
C30_NoForwardOutput ==
    /\ EMPTY_MODEL_RUNNER_OUTPUT = EmptyOutput
    /\ NoForwardOutput

\* C30, witness: the second step of a runner with a connector was a call
\* to which the connector answered an empty set and None: the shared
\* object is returned, still empty.
C30_Witness ==
    /\ NoForwardReturned
    /\ has_kv_transfer_group
    /\ steps.count = 2
    /\ Len(kv_transfer_group.calls) = 6
    /\ result.finished = <<SomeSet({}), NoSet>>
    /\ result.object = "EMPTY_MODEL_RUNNER_OUTPUT"

====
